---- MODULE Spec2Model ----
(***************************************************************************)
(* The mock KQL query engine of MockDataService                            *)
(* (src/src/services/mockDataService.ts, lines 747-1653).                  *)
(*                                                                         *)
(* A query text is a sequence of lexical chunks ("tokens"): words, the     *)
(* pipe "|", the line break NL, and the chunks the engine's regular        *)
(* expressions treat as a unit (a leaf predicate, an aggregation spec).    *)
(* Chunks are separated by white space in the real text.  A row is a       *)
(* function from the column names it has to their values; a column the     *)
(* row does not have reads as undefined.                                   *)
(***************************************************************************)
EXTENDS Integers, Sequences, FiniteSets, TLC

VARIABLES
  kqlQuery,     \* the text handed to executeKQLQuery
  cache,        \* the registry's stored rows, per lower-case table name
  pc,           \* "start" | "running" (suspended at an await) | "done" | "failed"
  parsedQuery,  \* the KQLQuery parseKQLStatement returned
  opIndex,      \* number of operations of parsedQuery already applied
  data,         \* the row sequence handed to the operation applied last
  result,       \* the current row sequence
  error,        \* the error the call was rejected with, NoError if none
  shared,       \* the table whose stored array `result` is, "" if it is an
                \* array of the call's own
  inFlight      \* the other calls in flight, each suspended at an await

vars == <<kqlQuery, cache, pc, parsedQuery, opIndex, data, result, error,
          shared, inFlight>>

----------------------------------------------------------------------------
(* Bounds of the model *)

MaxStages == 2
MaxRows == 3
MaxEvents == 2
MaxJoinRows == 2
MaxCount == 3

----------------------------------------------------------------------------
(* Tokens *)

NL == "\n"
PIPE == "|"

RECURSIVE SplitOn(_, _)
\* String.prototype.split(sep) on a token sequence: the pieces between
\* occurrences of sep, empty pieces included.
SplitOn(toks, sep) ==
  IF \A i \in 1..Len(toks) : toks[i] # sep
  THEN <<toks>>
  ELSE LET i == CHOOSE k \in 1..Len(toks) :
                  toks[k] = sep /\ \A j \in 1..(k-1) : toks[j] # sep
       IN  <<SubSeq(toks, 1, i-1)>> \o SplitOn(SubSeq(toks, i+1, Len(toks)), sep)

NonEmpty(s) == s # <<>>

RECURSIVE Flatten(_)
Flatten(ss) == IF ss = <<>> THEN <<>> ELSE Head(ss) \o Flatten(Tail(ss))

\* The digit strings the model writes, and parseInt of them.
Digits == <<"0", "1", "2", "3", "4", "5">>
IsDigits(tok) == \E n \in 1..Len(Digits) : Digits[n] = tok
ParseInt(tok) == (CHOOSE n \in 1..Len(Digits) : Digits[n] = tok) - 1

----------------------------------------------------------------------------
(* Statement and operation parsing *)

NullOperation == [type |-> "null"]

\* parseInt default of a top stage without a readable count (line 828).
DefaultTopCount == 10

\* The leading \w+ run of a chunk: what the regex group (\w+) captures at
\* its start.  Only "kind=<k>" chunks differ from their own text here.
WordPrefix(tok) ==
  CASE tok = "kind=inner" -> "kind"
    [] tok = "kind=left"  -> "kind"
    [] tok = "kind=leftouter" -> "kind"
    [] OTHER -> tok

\* A chunk that is one \w+ word all through.
IsWord(tok) ==
  tok \notin {PIPE, NL, ",", "==", "kind=inner", "kind=left", "kind=leftouter",
              "left.vesselId", "right.vesselId"}

IsKindTok(tok) == tok \in {"kind=inner", "kind=left", "kind=leftouter"}
KindOf(tok) ==
  CASE tok = "kind=left" -> "left"
    [] tok = "kind=leftouter" -> "leftouter"
    [] OTHER -> "inner"

parseSummarizeOperation(operationText) ==
  LET content == Tail(operationText)
      \* split(/\s+by\s+/i): a "by" with text on both sides
      inner == IF Len(content) >= 2
                 THEN {i \in 2..(Len(content)-1) : content[i] = "by"} ELSE {}
      parts == IF inner = {} THEN <<content>>
               ELSE LET i == CHOOSE k \in inner : \A j \in inner : k <= j
                        rest == SubSeq(content, i+1, Len(content))
                        inner2 == {j \in 2..(Len(rest)-1) : rest[j] = "by"}
                        second == IF inner2 = {} THEN rest
                                  ELSE SubSeq(rest, 1,
                                     (CHOOSE k \in inner2 : \A j \in inner2 : k <= j) - 1)
                    IN  <<SubSeq(content, 1, i-1), second>>
  IN  [aggregations |-> SplitOn(parts[1], ","),
       groupBy      |-> IF Len(parts) > 1 THEN SplitOn(parts[2], ",") ELSE <<>>]

parseJoinOperation(operationText) ==
  LET t == operationText
      n == Len(t)
  IN  \* /join\s+(?:kind\s*=\s*(\w+)\s+)?(\w+)\s+on\s+(.+)/i
      IF n >= 5 /\ IsKindTok(t[2]) /\ IsWord(t[3]) /\ t[4] = "on"
      THEN [kind |-> KindOf(t[2]), table |-> t[3], condition |-> SubSeq(t, 5, n)]
      ELSE IF n >= 4 /\ IsWord(t[2]) /\ t[3] = "on"
      THEN [kind |-> "inner", table |-> t[2], condition |-> SubSeq(t, 4, n)]
      \* /join\s+(\w+)/i
      ELSE IF n >= 2 /\ t[2] \notin {PIPE, ",", "=="}
      THEN [kind |-> "inner", table |-> WordPrefix(t[2]), condition |-> <<>>]
      ELSE [kind |-> "inner", table |-> "", condition |-> <<>>]

parseUnionOperation(operationText) ==
  [table |-> IF Len(operationText) >= 2 /\ operationText[2] \notin {PIPE, ",", "=="}
             THEN WordPrefix(operationText[2]) ELSE ""]

parseKQLOperation(operationText) ==
  LET operator == IF operationText = <<>> THEN "" ELSE operationText[1]
      rest == IF operationText = <<>> THEN <<>> ELSE Tail(operationText)
  IN  CASE operator = "where" ->
             [type |-> "where", condition |-> rest]
        [] operator = "summarize" ->
             [type |-> "summarize"] @@ parseSummarizeOperation(operationText)
        [] operator = "project" ->
             [type |-> "project", columns |-> SplitOn(rest, ",")]
        [] operator = "extend" ->
             [type |-> "extend", expression |-> rest]
        [] operator = "distinct" ->
             [type |-> "distinct", columns |-> SplitOn(rest, ",")]
        [] operator = "top" ->
             \* /top\s+(\d+)(?:\s+by\s+(.+))?/i
             IF Len(rest) >= 1 /\ IsDigits(rest[1])
             THEN [type |-> "top", count |-> ParseInt(rest[1]),
                   orderBy |-> IF Len(rest) >= 3 /\ rest[2] = "by"
                               THEN SubSeq(rest, 3, Len(rest)) ELSE <<>>]
             ELSE [type |-> "top", count |-> DefaultTopCount, orderBy |-> <<>>]
        [] operator \in {"sort", "order"} ->
             [type |-> "sort",
              expression |-> IF Len(rest) >= 2 /\ rest[1] = "by" THEN Tail(rest) ELSE rest]
        [] operator = "bin" ->
             [type |-> "bin", expression |-> operationText]
        [] operator = "join" ->
             [type |-> "join"] @@ parseJoinOperation(operationText)
        [] operator = "union" ->
             [type |-> "union"] @@ parseUnionOperation(operationText)
        [] OTHER -> NullOperation

RECURSIVE ParseAll(_)
\* parse each text in turn and push the operations that are not null
ParseAll(texts) ==
  IF texts = <<>> THEN <<>>
  ELSE LET operation == parseKQLOperation(Head(texts))
       IN  (IF operation # NullOperation THEN <<operation>> ELSE <<>>)
           \o ParseAll(Tail(texts))

\* parseKQLStatement throws a TypeError (firstLine is undefined) when the
\* text has no non-blank line: threw = TRUE.
parseKQLStatement(q) ==
  LET lines == SelectSeq(SplitOn(q, NL), NonEmpty)
  IN  IF lines = <<>>
      THEN [threw |-> TRUE, table |-> "", operations |-> <<>>]
      ELSE LET firstLine == lines[1]
               tableName == firstLine[1]
               laterLines == SelectSeq(Tail(lines), LAMBDA l : l[1] = PIPE)
               fromLater == ParseAll([i \in 1..Len(laterLines) |-> Tail(laterLines[i])])
               firstLineRest == Tail(firstLine)
               fromFirst ==
                 IF firstLineRest # <<>> /\ firstLineRest[1] = PIPE
                 THEN ParseAll(SelectSeq(SplitOn(firstLineRest, PIPE), NonEmpty))
                 ELSE <<>>
           IN  [threw |-> FALSE, table |-> tableName,
                operations |-> fromLater \o fromFirst]

----------------------------------------------------------------------------
(* Rows and values *)

\* Columns holding numbers (timestamps are milliseconds) and booleans;
\* every other column holds strings.
NumCols == {"timestamp", "scheduledDate", "voltage", "cost", "total"}
BoolCols == {"resolved"}
\* the columns holding an object ({latitude, longitude})
ObjectCols == {"location"}

\* The strings of the model in the order of JavaScript's < on strings
\* (UTF-16 code units: upper case before lower case).
StrOrder == <<"Atlantic", "Baltic", "Coral", "V1", "V2", "V3",
              "[object Object]", "critical", "high", "low", "undefined">>
StrRank(str) ==
  IF \E i \in 1..Len(StrOrder) : StrOrder[i] = str
  THEN CHOOSE i \in 1..Len(StrOrder) : StrOrder[i] = str
  ELSE 0

\* String.prototype.toLowerCase on the strings of the model.
toLowerCase(str) ==
  CASE str = "BatteryReadings"   -> "batteryreadings"
    [] str = "VesselInfo"        -> "vesselinfo"
    [] str = "VesselMaintenance" -> "vesselmaintenance"
    [] str = "WeatherData"       -> "weatherdata"
    [] str = "NavigationData"    -> "navigationdata"
    [] str = "AlertsAndEvents"   -> "alertsandevents"
    [] str = "Foo"               -> "foo"
    [] str = "Atlantic"          -> "atlantic"
    [] str = "Baltic"            -> "baltic"
    [] str = "Coral"             -> "coral"
    [] str = "V1"                -> "v1"
    [] str = "V2"                -> "v2"
    [] str = "V3"                -> "v3"
    [] OTHER -> str

\* The column a text names: row[text] with a text of several chunks, or
\* of none, is a column no row has.
FieldOf(toks) == IF Len(toks) = 1 THEN toks[1] ELSE ""

\* A column holding null is listed in the row's "$null" entry instead of
\* carrying a value.
NullCols(row) == IF "$null" \in DOMAIN row THEN row["$null"] ELSE {}
ValueCols(row) == (DOMAIN row) \ {"$null"}

\* the row has a value other than null and undefined in the column
Has(row, col) == col \in ValueCols(row)
IsNull(row, col) == col \in NullCols(row)

\* String(row[col])
StringOf(row, col) ==
  IF IsNull(row, col) THEN "null"
  ELSE IF ~Has(row, col) THEN "undefined"
  ELSE IF col \in NumCols THEN ToString(row[col])
  ELSE IF col \in BoolCols THEN (IF row[col] THEN "true" ELSE "false")
  ELSE IF col \in ObjectCols THEN "[object Object]"
  ELSE row[col]

\* parseFloat(row[col]) is a number (not NaN)
IsNumeric(row, col) == Has(row, col) /\ col \in NumCols

\* a[col] < b[col] with JavaScript's generic comparison: false whenever a
\* side is undefined; null compares as the number 0 with a number and as
\* NaN with a string.
NumberOf(row, col) == IF IsNull(row, col) THEN 0 ELSE row[col]
LessThan(a, b, col) ==
  IF col \in NumCols
  THEN /\ (Has(a, col) \/ IsNull(a, col)) /\ (Has(b, col) \/ IsNull(b, col))
       /\ NumberOf(a, col) < NumberOf(b, col)
  ELSE /\ Has(a, col) /\ Has(b, col)
       /\ IF col \in BoolCols THEN (~a[col] /\ b[col])
          ELSE StrRank(a[col]) < StrRank(b[col])

\* { ...left, ...right }: the right row's entries, null ones included,
\* replace the left row's.
Merge(left, right) ==
  LET values == (ValueCols(left) \ NullCols(right)) \cup ValueCols(right)
      nulls == (NullCols(left) \ ValueCols(right)) \cup NullCols(right)
      merged == [c \in values |-> IF c \in ValueCols(right) THEN right[c] ELSE left[c]]
  IN  IF nulls = {} THEN merged ELSE merged @@ [c \in {"$null"} |-> nulls]

Front(s) == SubSeq(s, 1, Len(s) - 1)
Last(s) == s[Len(s)]
Min(a, b) == IF a < b THEN a ELSE b

\* The comparator of applyTopOperation and applySortOperation.
Comparison(a, b, field, direction) ==
  LET comparison == IF LessThan(a, b, field) THEN -1
                    ELSE IF LessThan(b, a, field) THEN 1 ELSE 0
  IN  IF direction = "desc" THEN -comparison ELSE comparison

RECURSIVE InsertSorted(_, _, _, _)
InsertSorted(sorted, x, field, direction) ==
  IF sorted = <<>> \/ Comparison(Last(sorted), x, field, direction) <= 0
  THEN Append(sorted, x)
  ELSE Append(InsertSorted(Front(sorted), x, field, direction), Last(sorted))

RECURSIVE SortRows(_, _, _)
\* Array.prototype.sort with the comparator above: a stable sort, taken
\* here as insertion from the left.  Where the comparator is not a
\* consistent order (undefined values among several distinct ones) the
\* language leaves the order to the engine.
SortRows(rows, field, direction) ==
  IF rows = <<>> THEN <<>>
  ELSE InsertSorted(SortRows(Front(rows), field, direction), Last(rows),
                    field, direction)

----------------------------------------------------------------------------
(* The table registry *)

TableNames == {"batteryreadings", "vesselinfo", "vesselmaintenance",
               "weatherdata", "navigationdata", "alertsandevents"}

\* The column the registry sorts a table by ("" for vesselinfo, which is
\* copied as it is stored).
TimeColumn(table) ==
  CASE table = "vesselinfo" -> ""
    [] table = "vesselmaintenance" -> "scheduledDate"
    [] OTHER -> "timestamp"

\* getVessels handing out this.vessels itself
getVesselsNoCopy == [rows |-> cache["vesselinfo"], stored |-> "vesselinfo"]

\* getVessels: [...this.vessels], a copy of the stored array
getVessels == [rows |-> cache["vesselinfo"], stored |-> ""]

\* getTableData of a registered table: a fresh array of the stored rows,
\* sorted by time.
getAllRows(table) ==
  IF TimeColumn(table) = "" THEN getVessels.rows
  ELSE SortRows(cache[table], TimeColumn(table), "asc")

\* The table whose stored array getTableData hands out, "" when the array
\* is new: the getAll... accessors fill and sort an array of their own.
StoredArray(table) ==
  IF TimeColumn(table) = "" THEN getVessels.stored ELSE ""

IsRegistered(tableName) == toLowerCase(tableName) \in TableNames

\* getTableData with the vesselmaintenance case returning the battery
\* readings (a case of the switch calling its neighbour's accessor)
getTableDataWrongCase(tableName) ==
  IF IsRegistered(tableName)
  THEN [threw |-> FALSE,
        rows |-> IF toLowerCase(tableName) = "vesselmaintenance"
                 THEN getAllRows("batteryreadings")
                 ELSE getAllRows(toLowerCase(tableName)),
        message |-> ""]
  ELSE [threw |-> TRUE, rows |-> <<>>, message |-> tableName]

\* getTableData: the rows, or the thrown Error("Unknown table: <tableName>")
getTableData(tableName) ==
  IF IsRegistered(tableName)
  THEN [threw |-> FALSE, rows |-> getAllRows(toLowerCase(tableName)), message |-> ""]
  ELSE [threw |-> TRUE, rows |-> <<>>, message |-> tableName]

\* The table whose stored array the rows of getTableData(tableName) are
TableArray(tableName) ==
  IF IsRegistered(tableName) THEN StoredArray(toLowerCase(tableName)) ELSE ""

----------------------------------------------------------------------------
(* Condition evaluation *)

\* What the leaf regular expressions of evaluateComplexCondition and
\* evaluateCondition find in a chunk: the pattern that matches it and the
\* groups it captures.  A chunk no pattern matches has pat = "none".
LeafPattern(tok) ==
  CASE tok = "severity in (\"high\",\"critical\")" ->
         [pat |-> "in", field |-> "severity", values |-> {"high", "critical"}]
    [] tok = "severity == \"critical\"" ->
         [pat |-> "equality", field |-> "severity", value |-> "critical"]
    [] tok = "severity == \"high\"" ->
         [pat |-> "equality", field |-> "severity", value |-> "high"]
    [] tok = "voltage > 11" ->
         [pat |-> "numeric", field |-> "voltage", operator |-> ">", value |-> 11]
    [] tok = "voltage > 12" ->
         [pat |-> "numeric", field |-> "voltage", operator |-> ">", value |-> 12]
    [] tok = "voltage <= 12" ->
         [pat |-> "numeric", field |-> "voltage", operator |-> "<=", value |-> 12]
    [] tok = "voltage != 12" ->
         [pat |-> "numeric", field |-> "voltage", operator |-> "!=", value |-> 12]
    [] tok = "voltage < 12" ->
         [pat |-> "numeric", field |-> "voltage", operator |-> "<", value |-> 12]
    [] tok = "voltage >= 12" ->
         [pat |-> "numeric", field |-> "voltage", operator |-> ">=", value |-> 12]
    [] tok = "voltage == 12" ->
         [pat |-> "numeric", field |-> "voltage", operator |-> "==", value |-> 12]
    [] tok = "timestamp >= ago(1m)" ->
         [pat |-> "ago", operator |-> ">=", value |-> 1, unit |-> "m"]
    [] tok = "timestamp between(ago(2m) .. ago(1m))" ->
         [pat |-> "between", startValue |-> 2, startUnit |-> "m",
          endValue |-> 1, endUnit |-> "m"]
    [] tok = "timestamp between(ago(2m) .. ago(30s))" ->
         [pat |-> "between", startValue |-> 2, startUnit |-> "m",
          endValue |-> 30, endUnit |-> "s"]
    [] tok = "timestamp between(ago(60s) .. ago(1m))" ->
         [pat |-> "between", startValue |-> 60, startUnit |-> "s",
          endValue |-> 1, endUnit |-> "m"]
    [] tok = "timestamp between(ago(1m) .. ago(2m))" ->
         [pat |-> "between", startValue |-> 1, startUnit |-> "m",
          endValue |-> 2, endUnit |-> "m"]
    \* startofday\((.*?)\): the lazy group ends before the first ")"
    [] tok = "timestamp >= startofday(ago(1d))" ->
         [pat |-> "startofday", operator |-> ">=", dateExpr |-> "ago(1d"]
    [] tok = "timestamp < startofday(ago(1d))" ->
         [pat |-> "startofday", operator |-> "<", dateExpr |-> "ago(1d"]
    [] tok = "timestamp >= startofday(now())" ->
         [pat |-> "startofday", operator |-> ">=", dateExpr |-> "now("]
    [] tok = "timestamp < startofday(now())" ->
         [pat |-> "startofday", operator |-> "<", dateExpr |-> "now("]
    [] tok = "timestamp <= endofday(ago(1d))" ->
         [pat |-> "endofday", operator |-> "<=", dateExpr |-> "ago(1d"]
    [] tok = "timestamp <= endofday(now())" ->
         [pat |-> "endofday", operator |-> "<=", dateExpr |-> "now("]
    [] OTHER -> [pat |-> "none"]

\* A chunk whose last character is ")"
EndsWithParen(tok) == tok = ")" \/ LeafPattern(tok).pat \in {"in", "ago", "between"}

\* The positions of a connective that has text on both sides of it:
\* includes(' or '), split(/ or /i).
Interior(condition, word) ==
  {i \in 2..(Len(condition) - 1) : condition[i] = word}

RECURSIVE SplitInterior(_, _)
SplitInterior(condition, word) ==
  IF Interior(condition, word) = {} THEN <<condition>>
  ELSE LET i == CHOOSE k \in Interior(condition, word) :
                  \A j \in Interior(condition, word) : k <= j
       IN  <<SubSeq(condition, 1, i-1)>>
           \o SplitInterior(SubSeq(condition, i+1, Len(condition)), word)

\* condition.match(<pattern>): the leftmost chunk the pattern matches, 0 if
\* none.
FirstMatch(condition, pat) ==
  LET hits == {i \in 1..Len(condition) : LeafPattern(condition[i]).pat = pat}
  IN  IF hits = {} THEN 0 ELSE CHOOSE i \in hits : \A j \in hits : i <= j

\* Date.now(), in seconds: 07:33:20 of the third day of the clock
Now == 200000

\* the seconds of a unit d, h, m or s (the code counts in milliseconds)
Multiplier(unit) ==
  CASE unit = "d" -> 24 * 60 * 60
    [] unit = "h" -> 60 * 60
    [] unit = "m" -> 60
    [] OTHER -> 1

\* dateExpr.match(/ago\((\d+)(d|h|m|s)\)/): the offset in seconds, -1
\* without a match.  The pattern wants the closing parenthesis.
AgoInner(dateExpr) ==
  CASE dateExpr = "ago(1d)" -> 1 * Multiplier("d")
    [] OTHER -> -1

\* the text has 'ago(' in it
HasAgo(tok) ==
  \/ LeafPattern(tok).pat \in {"ago", "between"}
  \/ /\ LeafPattern(tok).pat \in {"startofday", "endofday"}
     /\ LeafPattern(tok).dateExpr \in {"ago(1d", "ago(1d)"}

\* condition.includes('ago(')
IncludesAgo(condition) == \E i \in 1..Len(condition) : HasAgo(condition[i])

\* new Date(y, m, d) of a time: the midnight that begins its day, days
\* being counted from the clock's 0
StartOfDay(time) == (time \div Multiplier("d")) * Multiplier("d")

\* the Date the day functions start from: now unless dateExpr has an
\* 'ago(' that the inner pattern matches
TargetDate(dateExpr) ==
  IF dateExpr \in {"ago(1d", "ago(1d)"} /\ AgoInner(dateExpr) >= 0
  THEN Now - AgoInner(dateExpr)
  ELSE Now

\* rowTime = new Date(row.timestamp) is an Invalid Date when the row has no
\* timestamp, and every comparison with it is false.
evaluateTimeCondition(row, condition) ==
  LET agoMatch == FirstMatch(condition, "ago")
      betweenMatch == FirstMatch(condition, "between")
      valid == Has(row, "timestamp")
  IN  IF agoMatch # 0
      THEN LET m == LeafPattern(condition[agoMatch])
               cutoffTime == Now - m.value * Multiplier(m.unit)
           IN  CASE m.operator = ">=" -> valid /\ row.timestamp >= cutoffTime
                 [] m.operator = ">"  -> valid /\ row.timestamp > cutoffTime
                 [] m.operator = "<=" -> valid /\ row.timestamp <= cutoffTime
                 [] m.operator = "<"  -> valid /\ row.timestamp < cutoffTime
                 [] OTHER -> TRUE
      ELSE IF betweenMatch # 0
      THEN LET m == LeafPattern(condition[betweenMatch])
               startTime == Now - m.startValue * Multiplier(m.startUnit)
               endTime == Now - m.endValue * Multiplier(m.endUnit)
           IN  valid /\ row.timestamp >= endTime /\ row.timestamp <= startTime
      ELSE IF FirstMatch(condition, "startofday") # 0
      THEN LET m == LeafPattern(condition[FirstMatch(condition, "startofday")])
               startOfDay == StartOfDay(TargetDate(m.dateExpr))
           IN  CASE m.operator = ">=" -> valid /\ row.timestamp >= startOfDay
                 [] m.operator = ">"  -> valid /\ row.timestamp > startOfDay
                 [] m.operator = "<=" -> valid /\ row.timestamp <= startOfDay
                 [] m.operator = "<"  -> valid /\ row.timestamp < startOfDay
                 [] m.operator = "==" -> /\ valid /\ row.timestamp >= startOfDay
                                         /\ row.timestamp < startOfDay + Multiplier("d")
                 [] OTHER -> TRUE
      ELSE IF FirstMatch(condition, "endofday") # 0
      THEN LET m == LeafPattern(condition[FirstMatch(condition, "endofday")])
               \* 23:59:59.999: the last whole second of the day, for
               \* timestamps that are whole seconds
               endOfDay == StartOfDay(TargetDate(m.dateExpr)) + Multiplier("d") - 1
           IN  CASE m.operator = ">=" -> valid /\ row.timestamp > endOfDay
                 [] m.operator = ">"  -> valid /\ row.timestamp > endOfDay
                 [] m.operator = "<=" -> valid /\ row.timestamp <= endOfDay
                 [] m.operator = "<"  -> valid /\ row.timestamp <= endOfDay
                 [] m.operator = "==" -> valid /\ StartOfDay(row.timestamp)
                                                   = StartOfDay(TargetDate(m.dateExpr))
                 [] OTHER -> TRUE
      ELSE TRUE

evaluateCondition(row, condition) ==
  LET equalityMatch == FirstMatch(condition, "equality")
      numericMatch == FirstMatch(condition, "numeric")
  IN  IF IncludesAgo(condition)
      THEN evaluateTimeCondition(row, condition)
      ELSE IF equalityMatch # 0
      THEN LET m == LeafPattern(condition[equalityMatch])
           IN  toLowerCase(StringOf(row, m.field)) = toLowerCase(m.value)
      ELSE IF numericMatch # 0
      THEN LET m == LeafPattern(condition[numericMatch])
               isNaN == ~IsNumeric(row, m.field)
           IN  CASE m.operator = ">"  -> ~isNaN /\ row[m.field] > m.value
                 [] m.operator = "<"  -> ~isNaN /\ row[m.field] < m.value
                 [] m.operator = ">=" -> ~isNaN /\ row[m.field] >= m.value
                 [] m.operator = "<=" -> ~isNaN /\ row[m.field] <= m.value
                 [] m.operator = "==" -> ~isNaN /\ row[m.field] = m.value
                 [] m.operator = "!=" -> isNaN \/ row[m.field] # m.value
                 [] OTHER -> TRUE
      ELSE TRUE

RECURSIVE evaluateComplexCondition(_, _)
evaluateComplexCondition(row, condition) ==
  IF Interior(condition, "or") # {}
  THEN LET orParts == SplitInterior(condition, "or")
       IN  \E k \in 1..Len(orParts) : evaluateComplexCondition(row, orParts[k])
  ELSE IF Interior(condition, "and") # {}
  THEN LET andParts == SplitInterior(condition, "and")
       IN  \A k \in 1..Len(andParts) : evaluateComplexCondition(row, andParts[k])
  ELSE IF Len(condition) >= 3 /\ condition[1] = "(" /\ condition[Len(condition)] = ")"
  THEN evaluateComplexCondition(row, SubSeq(condition, 2, Len(condition) - 1))
  ELSE IF Len(condition) >= 2 /\ condition[1] = "("
          /\ EndsWithParen(condition[Len(condition)])
  THEN \* the unwrapped text has lost the closing parenthesis of the last
       \* chunk, which no pattern matches any more
       evaluateComplexCondition(row,
         Append(SubSeq(condition, 2, Len(condition) - 1), "<cut>"))
  ELSE IF Len(condition) >= 2 /\ condition[1] = "not"
  THEN ~evaluateComplexCondition(row, Tail(condition))
  ELSE LET inMatch == FirstMatch(condition, "in")
       IN  IF inMatch # 0
           THEN LET m == LeafPattern(condition[inMatch])
                IN  StringOf(row, m.field) \in m.values
           ELSE evaluateCondition(row, condition)

applyWhereOperation(rows, condition) ==
  SelectSeq(rows, LAMBDA row : evaluateComplexCondition(row, condition))

----------------------------------------------------------------------------
(* Pipeline operations *)

\* The text of several chunks as one string (a key of a result row).
TextOf(toks) == IF Len(toks) = 1 THEN toks[1] ELSE ToString(toks)

\* orderBy.includes(' desc') / replace(' desc', ''): a "desc" chunk that
\* has text before it.
WordAfterFirst(toks, word) == {i \in 2..Len(toks) : toks[i] = word}
RemoveFirst(toks, word) ==
  IF WordAfterFirst(toks, word) = {} THEN toks
  ELSE LET i == CHOOSE k \in WordAfterFirst(toks, word) :
                  \A j \in WordAfterFirst(toks, word) : k <= j
       IN  SubSeq(toks, 1, i-1) \o SubSeq(toks, i+1, Len(toks))

OrderField(expression) ==
  IF WordAfterFirst(expression, "desc") # {}
  THEN FieldOf(RemoveFirst(expression, "desc"))
  ELSE FieldOf(RemoveFirst(expression, "asc"))
OrderDirection(expression) ==
  IF WordAfterFirst(expression, "desc") # {} THEN "desc" ELSE "asc"

applyTopOperation(rows, parameters) ==
  LET sorted == IF parameters.orderBy # <<>>
                THEN SortRows(rows, OrderField(parameters.orderBy),
                              OrderDirection(parameters.orderBy))
                ELSE rows
  IN  SubSeq(sorted, 1, Min(parameters.count, Len(sorted)))

applySortOperation(rows, expression) ==
  SortRows(rows, OrderField(expression), OrderDirection(expression))

\* projected[col] = row[col]; a column the row lacks stays undefined
applyProjectOperation(rows, columns) ==
  LET cols == {FieldOf(columns[k]) : k \in 1..Len(columns)}
      project(row) ==
        LET values == [c \in cols \cap ValueCols(row) |-> row[c]]
            nulls == cols \cap NullCols(row)
        IN  IF nulls = {} THEN values ELSE values @@ [c \in {"$null"} |-> nulls]
  IN  [i \in 1..Len(rows) |-> project(rows[i])]

\* columns.map(col => String(row[col])).join('|')
RECURSIVE JoinKey(_, _)
JoinKey(row, columns) ==
  IF columns = <<>> THEN <<>>
  ELSE IF Len(columns) = 1 THEN <<StringOf(row, FieldOf(columns[1]))>>
  ELSE <<StringOf(row, FieldOf(columns[1])), PIPE>> \o JoinKey(row, Tail(columns))

RECURSIVE applyDistinctOperationKeepLast(_, _)
\* applyDistinctOperation keeping the last row of each key, not the first
applyDistinctOperationKeepLast(rows, columns) ==
  IF rows = <<>> THEN <<>>
  ELSE LET after == Tail(rows)
           later == {JoinKey(after[i], columns) : i \in 1..Len(after)}
       IN  IF JoinKey(Head(rows), columns) \in later
           THEN applyDistinctOperationKeepLast(after, columns)
           ELSE <<Head(rows)>> \o applyDistinctOperationKeepLast(after, columns)

RECURSIVE applyDistinctOperation(_, _)
applyDistinctOperation(rows, columns) ==
  IF rows = <<>> THEN <<>>
  ELSE LET before == Front(rows)
           row == Last(rows)
           seen == {JoinKey(before[i], columns) : i \in 1..Len(before)}
       IN  IF JoinKey(row, columns) \in seen
           THEN applyDistinctOperation(before, columns)
           ELSE Append(applyDistinctOperation(before, columns), row)

RECURSIVE Sum(_)
Sum(numbers) == IF numbers = <<>> THEN 0 ELSE Head(numbers) + Sum(Tail(numbers))

\* row[col] is truthy: not undefined, null, 0, false or the empty string
Truthy(row, col) ==
  /\ Has(row, col)
  /\ (col \in NumCols => row[col] # 0)
  /\ (col \in BoolCols => row[col])
  /\ (col \notin (NumCols \cup BoolCols \cup ObjectCols) => row[col] # "")

\* evaluateExpression: a sum of fields when the text has a "+", else the
\* field's value, or the text itself when that value is falsy
evaluateExpression(row, expression) ==
  IF \E k \in 1..Len(expression) : expression[k] = "+"
  THEN LET parts == SplitOn(expression, "+")
       IN  Sum([k \in 1..Len(parts) |->
                  IF IsNumeric(row, FieldOf(parts[k]))
                  THEN row[FieldOf(parts[k])] ELSE 0])
  ELSE IF Truthy(row, FieldOf(expression)) THEN row[FieldOf(expression)]
  ELSE TextOf(expression)

\* /(\w+)\s*=\s*(.+)/: the leftmost word followed by "=" and more text;
\* 0 if none.  In `a == b` the text after the first "=" is `= b`.
AssignmentAt(expression) ==
  LET hits == {k \in 1..(Len(expression) - 1) :
                 /\ IsWord(expression[k]) /\ expression[k] # "+" /\ expression[k] # "="
                 /\ \/ expression[k+1] = "=" /\ k + 2 <= Len(expression)
                    \/ expression[k+1] = "=="}
  IN  IF hits = {} THEN 0 ELSE CHOOSE k \in hits : \A j \in hits : k <= j

\* applyExtendOperation with the rows in reverse order
applyExtendOperationReversed(rows, expression) ==
  LET k == AssignmentAt(expression)
      expr == (IF expression[k+1] = "==" THEN <<"=">> ELSE <<>>)
                \o SubSeq(expression, k + 2, Len(expression))
  IN  IF k = 0 THEN rows
      ELSE [i \in 1..Len(rows) |->
              Merge(rows[Len(rows) + 1 - i],
                    [c \in {expression[k]} |->
                       evaluateExpression(rows[Len(rows) + 1 - i], expr)])]

applyExtendOperation(rows, expression) ==
  LET k == AssignmentAt(expression)
      expr == (IF expression[k+1] = "==" THEN <<"=">> ELSE <<>>)
                \o SubSeq(expression, k + 2, Len(expression))
  IN  IF k = 0 THEN rows
      ELSE [i \in 1..Len(rows) |->
              Merge(rows[i], [c \in {expression[k]} |-> evaluateExpression(rows[i], expr)])]

\* /bin\(([^,]+),\s*([^)]+)\)/: the field and the interval of the chunks
\* `bin(<field>` `,` `<interval>)` the model writes
BinPattern(tok) ==
  CASE tok = "bin(voltage" -> [pat |-> "bin", field |-> "voltage", column |-> "bin_voltage"]
    [] OTHER -> [pat |-> "none"]
BinInterval(tok) == CASE tok = "2)" -> 2 [] OTHER -> 0

BinAt(expression) ==
  LET hits == {k \in 1..(Len(expression) - 2) :
                 /\ BinPattern(expression[k]).pat = "bin"
                 /\ expression[k+1] = ","
                 /\ BinInterval(expression[k+2]) # 0}
  IN  IF hits = {} THEN 0 ELSE CHOOSE k \in hits : \A j \in hits : k <= j

\* applyNumericBin(parseFloat(row[field]), interval):
\* String(Math.floor(value / interval) * interval), "NaN" without a number
applyBinFunction(row, binExpression) ==
  LET k == BinAt(binExpression)
  IN  IF k = 0 THEN StringOf(row, FieldOf(binExpression))
      ELSE LET field == BinPattern(binExpression[k]).field
               interval == BinInterval(binExpression[k+2])
           IN  IF IsNumeric(row, field)
               THEN ToString((row[field] \div interval) * interval)
               ELSE "NaN"

\* a standalone bin stage adds the column bin_<field> to every row
applyBinOperation(rows, expression) ==
  LET k == BinAt(expression)
  IN  IF k = 0 THEN rows
      ELSE [i \in 1..Len(rows) |->
              Merge(rows[i], [c \in {BinPattern(expression[k]).column} |->
                                applyBinFunction(rows[i], expression)])]

----------------------------------------------------------------------------
(* Summarize *)

\* What the aggregation regular expressions find in a chunk.
AggPattern(tok) ==
  CASE tok = "avg(voltage)"   -> [pat |-> "basic", func |-> "avg", field |-> "voltage"]
    [] tok = "sum(voltage)"   -> [pat |-> "basic", func |-> "sum", field |-> "voltage"]
    [] tok = "count(voltage)" -> [pat |-> "basic", func |-> "count", field |-> "voltage"]
    [] tok = "min(voltage)"   -> [pat |-> "basic", func |-> "min", field |-> "voltage"]
    [] tok = "max(voltage)"   -> [pat |-> "basic", func |-> "max", field |-> "voltage"]
    \* the basic pattern is not anchored: it finds count(f) inside dcount(f)
    [] tok = "dcount(vesselId)" -> [pat |-> "basic", func |-> "count", field |-> "vesselId"]
    [] tok = "dcount(voltage)"  -> [pat |-> "basic", func |-> "count", field |-> "voltage"]
    [] OTHER -> [pat |-> "none"]

\* /dcount\(([^)]+)\)/ in a chunk
DcountPattern(tok) ==
  CASE tok = "dcount(vesselId)" -> [pat |-> "dcount", field |-> "vesselId"]
    [] tok = "dcount(voltage)"  -> [pat |-> "dcount", field |-> "voltage"]
    [] OTHER -> [pat |-> "none"]

\* The percentages the model writes, as the chunk closing a percentile spec.
Percentages == <<"0)", "50)", "100)">>
PercentOf(tok) == CASE tok = "0)" -> 0 [] tok = "50)" -> 50 [] tok = "100)" -> 100

\* /percentile\(([^,]+),\s*(\d+(?:\.\d+)?)\)/: the positions of agg where
\* `percentile(voltage` `,` `<P>)` stand one after the other
PercentilePattern(agg) ==
  {i \in 1..(Len(agg) - 2) :
     /\ agg[i] = "percentile(voltage" /\ agg[i+1] = ","
     /\ \E k \in 1..Len(Percentages) : Percentages[k] = agg[i+2]}

\* new Set(data.map(row => row[field])).size: primitive values count once
\* each, undefined and null included; every object counts on its own.
DistinctCount(rows, field) ==
  IF field \in ObjectCols
  THEN Cardinality({i \in 1..Len(rows) : Has(rows[i], field)})
       + (IF \E i \in 1..Len(rows) : IsNull(rows[i], field) THEN 1 ELSE 0)
       + (IF \E i \in 1..Len(rows) : ~Has(rows[i], field) /\ ~IsNull(rows[i], field)
          THEN 1 ELSE 0)
  ELSE Cardinality({StringOf(rows[i], field) : i \in 1..Len(rows)})

RECURSIVE InsertNumber(_, _)
InsertNumber(sorted, x) ==
  IF sorted = <<>> THEN <<x>>
  ELSE IF x < Head(sorted) THEN <<x>> \o sorted
  ELSE <<Head(sorted)>> \o InsertNumber(Tail(sorted), x)

RECURSIVE SortNumbers(_)
\* values.sort((a, b) => a - b)
SortNumbers(numbers) ==
  IF numbers = <<>> THEN <<>>
  ELSE InsertNumber(SortNumbers(Front(numbers)), Last(numbers))

Minimum(numbers) ==
  CHOOSE m \in {numbers[i] : i \in 1..Len(numbers)} :
    \A i \in 1..Len(numbers) : m <= numbers[i]
Maximum(numbers) ==
  CHOOSE m \in {numbers[i] : i \in 1..Len(numbers)} :
    \A i \in 1..Len(numbers) : m >= numbers[i]

\* A quotient a / b of two numbers, kept exact.
Quotient(a, b) == [num |-> a, den |-> b]

NullResult == [null |-> TRUE]
Value(v) == [null |-> FALSE, value |-> v]

calculateAggregation(rows, agg) ==
  LET hits == {i \in 1..Len(agg) : AggPattern(agg[i]).pat = "basic"}
  IN  IF hits # {}
      THEN LET m == AggPattern(agg[CHOOSE i \in hits : \A j \in hits : i <= j])
               numeric == SelectSeq(rows, LAMBDA row : IsNumeric(row, m.field))
               values == [i \in 1..Len(numeric) |-> numeric[i][m.field]]
           IN  CASE m.func = "avg" ->
                      Value(IF Len(values) > 0 THEN Quotient(Sum(values), Len(values))
                            ELSE Quotient(0, 1))
                 [] m.func = "sum" -> Value(Sum(values))
                 [] m.func = "count" -> Value(Len(rows))
                 [] m.func = "min" ->
                      IF Len(values) > 0 THEN Value(Minimum(values)) ELSE NullResult
                 [] m.func = "max" ->
                      IF Len(values) > 0 THEN Value(Maximum(values)) ELSE NullResult
      ELSE IF agg = <<"count()">> \/ agg = <<"count">>
      THEN Value(Len(rows))
      ELSE IF \E i \in 1..Len(agg) : DcountPattern(agg[i]).pat = "dcount"
      THEN LET i == CHOOSE k \in 1..Len(agg) :
                      /\ DcountPattern(agg[k]).pat = "dcount"
                      /\ \A j \in 1..(k-1) : DcountPattern(agg[j]).pat # "dcount"
           IN  Value(DistinctCount(rows, DcountPattern(agg[i]).field))
      ELSE IF PercentilePattern(agg) # {}
      THEN LET i == CHOOSE k \in PercentilePattern(agg) :
                      \A j \in PercentilePattern(agg) : k <= j
               numeric == SelectSeq(rows, LAMBDA row : IsNumeric(row, "voltage"))
               values == SortNumbers([k \in 1..Len(numeric) |-> numeric[k].voltage])
               \* Math.floor(percentile * (values.length - 1))
               index == (PercentOf(agg[i+2]) * (Len(values) - 1)) \div 100
           IN  IF Len(values) = 0 THEN NullResult ELSE Value(values[index + 1])
      ELSE NullResult

\* result[agg] = aggResult for every aggregation whose result is not null
AggregationRow(rows, aggregations) ==
  LET present == {i \in 1..Len(aggregations) :
                    ~calculateAggregation(rows, aggregations[i]).null}
      keys == {TextOf(aggregations[i]) : i \in present}
      lastOf(key) == CHOOSE i \in present :
                       /\ TextOf(aggregations[i]) = key
                       /\ \A j \in present : TextOf(aggregations[j]) = key => j <= i
  IN  [key \in keys |-> calculateAggregation(rows, aggregations[lastOf(key)]).value]

\* col.includes('bin(')
IncludesBin(col) == \E i \in 1..Len(col) : BinPattern(col[i]).pat = "bin"

\* the value of one group-by entry: applyBinFunction(row, col) for an
\* entry with 'bin(' in it, String(row[col]) for any other
GroupValue(row, col) ==
  IF IncludesBin(col) THEN applyBinFunction(row, col)
  ELSE StringOf(row, FieldOf(col))

RECURSIVE GroupKey(_, _)
\* the group key of a row: the group-by values, stringified, joined by "|"
GroupKey(row, groupBy) ==
  IF groupBy = <<>> THEN <<>>
  ELSE IF Len(groupBy) = 1 THEN <<GroupValue(row, groupBy[1])>>
  ELSE <<GroupValue(row, groupBy[1]), PIPE>> \o GroupKey(row, Tail(groupBy))

RECURSIVE GroupKeys(_, _)
\* the keys of the groups map, in insertion order
GroupKeys(rows, groupBy) ==
  IF rows = <<>> THEN <<>>
  ELSE LET before == GroupKeys(Front(rows), groupBy)
           key == GroupKey(Last(rows), groupBy)
       IN  IF \E i \in 1..Len(before) : before[i] = key
           THEN before ELSE Append(before, key)

\* result[col] = groupKey.split('|')[index]
GroupColumns(groupKey, groupBy) ==
  LET groupValues == SplitOn(groupKey, PIPE)
      present == {i \in 1..Len(groupBy) : i <= Len(groupValues)}
      keys == {TextOf(groupBy[i]) : i \in present}
      lastOf(key) == CHOOSE i \in present :
                       /\ TextOf(groupBy[i]) = key
                       /\ \A j \in present : TextOf(groupBy[j]) = key => j <= i
  IN  [key \in keys |-> TextOf(groupValues[lastOf(key)])]

\* the comparator of the final sort: the first group-by column's values,
\* which are strings
GroupLess(a, b, firstCol) ==
  /\ firstCol \in DOMAIN a /\ firstCol \in DOMAIN b
  /\ StrRank(a[firstCol]) < StrRank(b[firstCol])

RECURSIVE InsertGroup(_, _, _)
InsertGroup(sorted, x, firstCol) ==
  IF sorted = <<>> \/ ~GroupLess(x, Last(sorted), firstCol)
  THEN Append(sorted, x)
  ELSE Append(InsertGroup(Front(sorted), x, firstCol), Last(sorted))

RECURSIVE SortGroups(_, _)
SortGroups(results, firstCol) ==
  IF results = <<>> THEN <<>>
  ELSE InsertGroup(SortGroups(Front(results), firstCol), Last(results), firstCol)

\* applySummarizeOperation returning no row when it is given none
applySummarizeOperationSkipEmpty(rows, parameters) ==
  LET aggregations == parameters.aggregations
      groupBy == parameters.groupBy
  IN  IF rows = <<>> THEN <<>>
      ELSE IF Len(groupBy) = 0
      THEN <<AggregationRow(rows, aggregations)>>
      ELSE LET keys == GroupKeys(rows, groupBy)
               groupData(key) ==
                 SelectSeq(rows, LAMBDA row : GroupKey(row, groupBy) = key)
               results ==
                 [k \in 1..Len(keys) |->
                    Merge(GroupColumns(keys[k], groupBy),
                          AggregationRow(groupData(keys[k]), aggregations))]
           IN  SortGroups(results, TextOf(groupBy[1]))

applySummarizeOperation(rows, parameters) ==
  LET aggregations == parameters.aggregations
      groupBy == parameters.groupBy
  IN  IF Len(groupBy) = 0
      THEN <<AggregationRow(rows, aggregations)>>
      ELSE LET keys == GroupKeys(rows, groupBy)
               groupData(key) ==
                 SelectSeq(rows, LAMBDA row : GroupKey(row, groupBy) = key)
               results ==
                 [k \in 1..Len(keys) |->
                    Merge(GroupColumns(keys[k], groupBy),
                          AggregationRow(groupData(keys[k]), aggregations))]
           IN  SortGroups(results, TextOf(groupBy[1]))

----------------------------------------------------------------------------
(* Join and union *)

\* The field of a chunk of the shape <word>.<field>, "" for other chunks.
DotField(tok) ==
  CASE tok = "left.vesselId"  -> "vesselId"
    [] tok = "right.vesselId" -> "vesselId"
    [] OTHER -> ""

\* The last and the first \w+ run of a chunk.
LastWord(tok) == IF DotField(tok) # "" THEN DotField(tok) ELSE tok
FirstWord(tok) ==
  CASE tok = "left.vesselId"  -> "left"
    [] tok = "right.vesselId" -> "right"
    [] OTHER -> WordPrefix(tok)

\* leftRow[leftField] === rightRow[rightField]
SameValue(leftRow, leftField, rightRow, rightField) ==
  IF Has(leftRow, leftField) /\ Has(rightRow, rightField)
  THEN /\ (leftField \in NumCols) = (rightField \in NumCols)
       /\ (leftField \in BoolCols) = (rightField \in BoolCols)
       /\ leftRow[leftField] = rightRow[rightField]
  ELSE \/ IsNull(leftRow, leftField) /\ IsNull(rightRow, rightField)
       \/ /\ ~Has(leftRow, leftField) /\ ~IsNull(leftRow, leftField)
          /\ ~Has(rightRow, rightField) /\ ~IsNull(rightRow, rightField)

\* the merged pairs of one left row, in the order of the right rows
MatchesOfLeft(leftRow, rightData, leftField, rightField) ==
  LET matching == SelectSeq(rightData,
                    LAMBDA rightRow : SameValue(leftRow, leftField, rightRow, rightField))
  IN  [i \in 1..Len(matching) |-> Merge(leftRow, matching[i])]

MatchesOfRight(rightRow, leftData, leftField, rightField) ==
  LET matching == SelectSeq(leftData,
                    LAMBDA leftRow : SameValue(leftRow, leftField, rightRow, rightField))
  IN  [i \in 1..Len(matching) |-> Merge(matching[i], rightRow)]

\* a record of nulls for the keys of the first row of the other side
NullsFor(rows) ==
  IF Len(rows) > 0 /\ DOMAIN rows[1] # {}
  THEN [c \in {"$null"} |-> ValueCols(rows[1]) \cup NullCols(rows[1])]
  ELSE <<>>

EmptyRow == [c \in {} |-> 0]

\* performJoin whose left join leaves out the left rows without a match
performJoinMatchedOnly(leftData, rightData, leftField, rightField, kind) ==
  Flatten([i \in 1..Len(leftData) |->
             MatchesOfLeft(leftData[i], rightData, leftField, rightField)])

performJoin(leftData, rightData, leftField, rightField, kind) ==
  LET inner ==
        Flatten([i \in 1..Len(leftData) |->
                   MatchesOfLeft(leftData[i], rightData, leftField, rightField)])
      left ==
        Flatten([i \in 1..Len(leftData) |->
                   LET matched == MatchesOfLeft(leftData[i], rightData, leftField, rightField)
                   IN  IF matched # <<>> THEN matched
                       ELSE <<Merge(leftData[i], NullsFor(rightData))>>])
      right ==
        Flatten([i \in 1..Len(rightData) |->
                   LET matched == MatchesOfRight(rightData[i], leftData, leftField, rightField)
                   IN  IF matched # <<>> THEN matched
                       ELSE <<Merge(NullsFor(leftData), rightData[i])>>])
  IN  CASE kind \in {"inner"} -> inner
        [] kind \in {"left", "leftouter", "full", "fullouter"} -> left
        [] kind \in {"right", "rightouter"} -> right
        [] OTHER -> inner

\* the leftmost place of the condition where a chunk, "==" and a chunk
\* follow each other; 0 if none
EqualityAt(condition) ==
  LET hits == {i \in 1..(Len(condition) - 2) :
                 /\ condition[i+1] = "=="
                 /\ condition[i] \notin {PIPE, ",", "=="}
                 /\ condition[i+2] \notin {PIPE, ",", "=="}}
  IN  IF hits = {} THEN 0 ELSE CHOOSE i \in hits : \A j \in hits : i <= j

DottedAt(condition) ==
  LET hits == {i \in 1..(Len(condition) - 2) :
                 /\ condition[i+1] = "=="
                 /\ DotField(condition[i]) # ""
                 /\ DotField(condition[i+2]) # ""}
  IN  IF hits = {} THEN 0 ELSE CHOOSE i \in hits : \A j \in hits : i <= j

\* applyJoinOperation once the right table's rows are there
JoinRows(leftData, rightData, parameters) ==
  LET condition == parameters.condition
  IN  IF condition = <<>>
      THEN Flatten([i \in 1..Len(leftData) |->
                      [j \in 1..Len(rightData) |-> Merge(leftData[i], rightData[j])]])
      ELSE IF DottedAt(condition) # 0
      THEN performJoin(leftData, rightData,
                       DotField(condition[DottedAt(condition)]),
                       DotField(condition[DottedAt(condition) + 2]),
                       parameters.kind)
      ELSE IF EqualityAt(condition) # 0
      THEN performJoin(leftData, rightData,
                       LastWord(condition[EqualityAt(condition)]),
                       FirstWord(condition[EqualityAt(condition) + 2]),
                       parameters.kind)
      ELSE leftData

Rows(rows) == [threw |-> FALSE, rows |-> rows, message |-> ""]

applyJoinOperation(leftData, parameters) ==
  LET rightData == getTableData(parameters.table)
  IN  IF rightData.threw THEN rightData
      ELSE Rows(JoinRows(leftData, rightData.rows, parameters))

\* applyUnionOperation leaving out the right rows that equal a left row
applyUnionOperationDeduplicating(leftData, parameters) ==
  LET rightData == getTableData(parameters.table)
  IN  IF rightData.threw THEN rightData
      ELSE Rows(leftData \o SelectSeq(rightData.rows, LAMBDA row :
                               \A i \in 1..Len(leftData) : leftData[i] # row))

applyUnionOperation(leftData, parameters) ==
  LET rightData == getTableData(parameters.table)
  IN  IF rightData.threw THEN rightData
      ELSE Rows(leftData \o rightData.rows)

\* applyKQLOperation: the rows the operation returns, or the error it throws
applyKQLOperation(rows, operation) ==
  CASE operation.type = "where" ->
         Rows(applyWhereOperation(rows, operation.condition))
    [] operation.type = "project" ->
         Rows(applyProjectOperation(rows, operation.columns))
    [] operation.type = "summarize" ->
         Rows(applySummarizeOperation(rows, operation))
    [] operation.type = "distinct" ->
         Rows(applyDistinctOperation(rows, operation.columns))
    [] operation.type = "top" ->
         Rows(applyTopOperation(rows, operation))
    [] operation.type = "sort" ->
         Rows(applySortOperation(rows, operation.expression))
    [] operation.type = "extend" ->
         Rows(applyExtendOperation(rows, operation.expression))
    [] operation.type = "bin" ->
         Rows(applyBinOperation(rows, operation.expression))
    [] operation.type = "join" ->
         applyJoinOperation(rows, operation)
    [] operation.type = "union" ->
         applyUnionOperation(rows, operation)
    [] OTHER -> Rows(rows)

----------------------------------------------------------------------------
(* executeKQLQuery *)

NoError == [name |-> "none", table |-> ""]
TypeError == [name |-> "TypeError", table |-> ""]
UnknownTable(tableName) == [name |-> "Unknown table", table |-> tableName]

NoQuery == [threw |-> FALSE, table |-> "", operations |-> <<>>]

\* The call up to its first await: the text is parsed and the main table
\* is fetched.
ExecuteKQLQuery ==
  /\ pc = "start"
  /\ LET parsed == parseKQLStatement(kqlQuery)
         table == getTableData(parsed.table)
     IN  IF parsed.threw
         THEN /\ pc' = "failed"
              /\ error' = TypeError
              /\ UNCHANGED <<parsedQuery, result>>
         ELSE /\ parsedQuery' = parsed
              /\ IF table.threw
                 THEN /\ pc' = "failed"
                      /\ error' = UnknownTable(table.message)
                      /\ UNCHANGED result
                 ELSE /\ pc' = "running"
                      /\ result' = table.rows
                      /\ UNCHANGED error
  /\ shared' = LET parsed == parseKQLStatement(kqlQuery)
               IN  IF parsed.threw THEN shared ELSE TableArray(parsed.table)
  /\ UNCHANGED <<kqlQuery, cache, opIndex, data, inFlight>>

\* The array an operation was handed, as the operation leaves it:
\* applyTopOperation sorts it in place (data.sort) before it slices.
LeftInPlace(rows, operation) ==
  IF operation.type = "top" /\ operation.orderBy # <<>>
  THEN SortRows(rows, OrderField(operation.orderBy), OrderDirection(operation.orderBy))
  ELSE rows

\* The operations that return the very array they were handed: a join
\* whose condition neither pattern matches (`return leftData`), an extend
\* without an assignment and a bin without a bin(f, n) (`return data`).
\* Every other operation returns an array it made (filter, map, slice,
\* spread, push).
ReturnsItsInput(operation) ==
  \/ /\ operation.type = "join"
     /\ operation.condition # <<>>
     /\ DottedAt(operation.condition) = 0
     /\ EqualityAt(operation.condition) = 0
  \/ operation.type = "extend" /\ AssignmentAt(operation.expression) = 0
  \/ operation.type = "bin" /\ BinAt(operation.expression) = 0

\* One turn of the loop over parsedQuery.operations.  An operation that
\* changes the array it was handed changes the registry when that array is
\* a stored one.
ApplyKQLOperation ==
  /\ pc = "running"
  /\ opIndex < Len(parsedQuery.operations)
  /\ LET operation == parsedQuery.operations[opIndex + 1]
         applied == applyKQLOperation(result, operation)
     IN  /\ IF applied.threw
            THEN /\ pc' = "failed"
                 /\ error' = UnknownTable(applied.message)
                 /\ UNCHANGED <<result, data, opIndex, shared>>
            ELSE /\ result' = applied.rows
                 /\ data' = result
                 /\ opIndex' = opIndex + 1
                 /\ shared' = IF ReturnsItsInput(operation) THEN shared ELSE ""
                 /\ UNCHANGED <<pc, error>>
         /\ cache' = IF shared # "" /\ ~applied.threw
                     THEN [cache EXCEPT ![shared] = LeftInPlace(result, operation)]
                     ELSE cache
  /\ UNCHANGED <<kqlQuery, parsedQuery, inFlight>>

\* The loop is over: the call resolves with result.
Return ==
  /\ pc = "running"
  /\ opIndex = Len(parsedQuery.operations)
  /\ pc' = "done"
  /\ UNCHANGED <<kqlQuery, cache, parsedQuery, opIndex, data, result, error,
                 shared, inFlight>>

Next == ExecuteKQLQuery \/ ApplyKQLOperation \/ Return

----------------------------------------------------------------------------
(* Query texts and registry contents *)

RECURSIVE BuildText(_, _, _)
\* the table name followed by the stages, each after a "|" that either
\* continues the line or starts a new one
BuildText(tableName, stages, layout) ==
  IF stages = <<>> THEN <<tableName>>
  ELSE BuildText(tableName, Front(stages), Front(layout))
       \o (IF Last(layout) = "new" THEN <<NL>> ELSE <<>>)
       \o <<PIPE>> \o Last(stages)

Layouts(n) == [1..n -> {"same", "new"}]

BatteryRow(t, id, v) == [timestamp |-> t, vesselId |-> id, voltage |-> v]
MaintenanceRow(t, id, c) == [scheduledDate |-> t, vesselId |-> id, cost |-> c]
EventRow(t, sev, res) == [timestamp |-> t, severity |-> sev, resolved |-> res]

EmptyCache == [t \in TableNames |-> <<>>]

\* a small fleet: three readings stored out of time order, two
\* maintenance records
Fleet ==
  [EmptyCache EXCEPT
     !["batteryreadings"] = <<BatteryRow(3, "V1", 12), BatteryRow(1, "V2", 11),
                              BatteryRow(2, "V1", 13)>>,
     !["vesselmaintenance"] = <<MaintenanceRow(2, "V1", 5), MaintenanceRow(1, "V3", 7)>>,
     !["alertsandevents"] = <<EventRow(1, "high", FALSE)>>]

SmallFleet ==
  [EmptyCache EXCEPT
     !["batteryreadings"] = <<BatteryRow(1, "V2", 12)>>,
     !["vesselmaintenance"] = <<MaintenanceRow(1, "V2", 5)>>]

MainTables == {"BatteryReadings", "VesselMaintenance", "alertsandevents", "Foo"}

Stages ==
  { <<"top", "1">>,
    <<"sort", "by", "voltage", "desc">>,
    <<"where", "voltage > 12">>,
    <<"join", "Foo", "on", "vesselId", "==", "vesselId">>,
    <<"union", "VesselMaintenance">>,
    <<"frobnicate", "x">> }

Texts ==
  {<<>>, <<NL>>}
  \cup UNION { { BuildText(tableName, stages, layout) :
                   tableName \in MainTables, stages \in [1..n -> Stages],
                   layout \in Layouts(n) } : n \in 0..MaxStages }

Idle ==
  /\ pc = "start"
  /\ parsedQuery = NoQuery
  /\ opIndex = 0
  /\ data = <<>>
  /\ result = <<>>
  /\ error = NoError
  /\ shared = ""
  /\ inFlight = <<>>

Init ==
  /\ kqlQuery \in Texts
  /\ cache \in {Fleet, SmallFleet}
  /\ Idle

Spec == Init /\ [][Next]_vars

----------------------------------------------------------------------------
(* The query text as the statement grammar reads it *)

WithoutBreaks(text) == SelectSeq(text, LAMBDA tok : tok # NL)

\* the table name: the first word of the text
MainTable(text) == WithoutBreaks(text)[1]

\* the stages: the segments each "|" starts, in the order of the text
StagesOf(text) ==
  IF WithoutBreaks(text) = <<>> THEN <<>>
  ELSE SelectSeq(Tail(SplitOn(WithoutBreaks(text), PIPE)), NonEmpty)

\* the right-hand table a join or union stage names
RightTable(stage) ==
  IF stage[1] = "join" /\ Len(stage) >= 3 /\ IsKindTok(stage[2]) THEN stage[3]
  ELSE IF Len(stage) >= 2 THEN stage[2] ELSE ""

NamedTables(text) ==
  IF WithoutBreaks(text) = <<>> THEN {}
  ELSE {MainTable(text)}
       \cup {RightTable(StagesOf(text)[k]) :
               k \in {i \in 1..Len(StagesOf(text)) :
                        StagesOf(text)[i][1] \in {"join", "union"}}}

UnknownTables(text) == {t \in NamedTables(text) : toLowerCase(t) \notin TableNames}

Finished == pc \in {"done", "failed"}

\* rows is stored in the registry's order: sorted by the time column, rows
\* of equal time in the order they are stored
RegistryOrder(rows, stored, col) ==
  /\ Len(rows) = Len(stored)
  /\ IF col = "" THEN rows = stored
     ELSE \E p \in [1..Len(rows) -> 1..Len(rows)] :
            /\ \A i, j \in 1..Len(rows) : i # j => p[i] # p[j]
            /\ \A i \in 1..Len(rows) : rows[i] = stored[p[i]]
            /\ \A i, j \in 1..Len(rows) :
                 i < j => \/ rows[i][col] < rows[j][col]
                          \/ rows[i][col] = rows[j][col] /\ p[i] < p[j]

----------------------------------------------------------------------------
(* Claims on statements *)

\* C1: a query that is the name of a registered table and nothing else
\* returns that table's rows, all of them, in the registry's order.
C1_Identity ==
  (pc = "done" /\ StagesOf(kqlQuery) = <<>>)
    => LET table == toLowerCase(MainTable(kqlQuery))
       IN  /\ table \in TableNames
           /\ RegistryOrder(result, cache[table], TimeColumn(table))

C1_Witness ==
  /\ pc = "done" /\ StagesOf(kqlQuery) = <<>>
  /\ Len(result) = 3
  /\ result # cache[toLowerCase(MainTable(kqlQuery))]

\* C2: when the main table, or the right-hand table of a join or union
\* stage, is not registered, the call fails with an unknown-table error
\* naming such a table and returns no rows.
C2_UnknownTableFails ==
  (Finished /\ UnknownTables(kqlQuery) # {})
    => /\ pc = "failed"
       /\ error.name = "Unknown table"
       /\ error.table \in UnknownTables(kqlQuery)

\* C3: a text all of whose tables are registered never makes the call
\* fail, whatever else is malformed in it.
C3_NoOtherError ==
  (Finished /\ UnknownTables(kqlQuery) = {}) => pc = "done"

RECURSIVE ApplyInOrder(_, _)
\* the operations applied one after the other, first to last
ApplyInOrder(rows, operations) ==
  IF operations = <<>> THEN Rows(rows)
  ELSE LET before == ApplyInOrder(rows, Front(operations))
       IN  IF before.threw THEN before
           ELSE applyKQLOperation(before.rows, Last(operations))

\* C4: the call ends as the text's stages, applied in the left-to-right
\* order of the text, make it end, for every layout of the lines.
C4_TextOrder ==
  (Finished /\ error # TypeError /\ IsRegistered(MainTable(kqlQuery)))
    => LET expected == ApplyInOrder(getTableData(MainTable(kqlQuery)).rows,
                                    ParseAll(StagesOf(kqlQuery)))
       IN  IF expected.threw
           THEN pc = "failed" /\ error = UnknownTable(expected.message)
           ELSE pc = "done" /\ result = expected.rows

----------------------------------------------------------------------------
(* Filters: one where stage over the events table *)

SeqsUpTo(S, n) == UNION {[1..k -> S] : k \in 0..n}

Severities == {"critical", "high", "low"}
Events == {EventRow(1, sev, res) : sev \in Severities, res \in BOOLEAN}

SeverityIn == "severity in (\"high\",\"critical\")"
Leaves == {SeverityIn, "severity == \"critical\"", "severity == \"high\""}

Predicates ==
  {<<leaf>> : leaf \in Leaves}
  \cup {P \in {<<a, word, b>> : a \in Leaves, b \in Leaves, word \in {"or", "and"}} :
          P[1] # P[3]}
  \cup {<<"resolved">>, <<SeverityIn, "and", "not", "resolved">>}

\* the text `not P`, with P in parentheses when it has a connective
NegationOf(P) ==
  IF Len(P) = 1 THEN <<"not">> \o P ELSE <<"not", "(">> \o P \o <<")">>

Conditions ==
  Predicates \cup {<<"not">> \o P : P \in Predicates}
             \cup {NegationOf(P) : P \in Predicates}

InitWhere ==
  /\ kqlQuery \in {<<"AlertsAndEvents", PIPE, "where">> \o condition :
                     condition \in Conditions}
  /\ cache \in {[EmptyCache EXCEPT !["alertsandevents"] = events] :
                  events \in SeqsUpTo(Events, MaxEvents)}
  /\ Idle

SpecWhere == InitWhere /\ [][Next]_vars

RangeOf(seq) == {seq[i] : i \in 1..Len(seq)}

\* the where stage of a finished one-stage query
WhereDone ==
  /\ pc = "done"
  /\ Len(StagesOf(kqlQuery)) = 1
  /\ StagesOf(kqlQuery)[1][1] = "where"

ConditionText == Tail(StagesOf(kqlQuery)[1])

\* C5: the rows `where P` keeps and the rows `where not P` keeps are
\* disjoint and together are the rows filtered, for every condition P
\* (conjunctions and disjunctions of leaf predicates included).
C5_NegationPartition ==
  WhereDone
    => LET kept == RangeOf(result)
           keptByNot == RangeOf(applyWhereOperation(data, NegationOf(ConditionText)))
       IN  /\ kept \cap keptByNot = {}
           /\ kept \cup keptByNot = RangeOf(data)

\* C6: `severity in ("high","critical") and not resolved` keeps exactly
\* the rows of severity high or critical whose resolved is false, and
\* `not resolved` exactly the rows whose resolved is false.
C6_NotResolved ==
  /\ (WhereDone /\ ConditionText = <<SeverityIn, "and", "not", "resolved">>)
       => result = SelectSeq(data, LAMBDA row :
                      row.severity \in {"high", "critical"} /\ ~row.resolved)
  /\ (WhereDone /\ ConditionText = <<"not", "resolved">>)
       => result = SelectSeq(data, LAMBDA row : ~row.resolved)

----------------------------------------------------------------------------
(* Joins: one join stage of the battery readings with the maintenance
   records *)

Readings == {BatteryRow(1, "V1", 11), BatteryRow(1, "V2", 12)}
Records == {MaintenanceRow(1, "V1", 5), MaintenanceRow(2, "V1", 6), MaintenanceRow(1, "V3", 7)}

JoinKinds == {<<>>, <<"kind=inner">>, <<"kind=left">>, <<"kind=leftouter">>}

JoinConditions ==
  { <<"vesselId">>,
    <<"vesselId", "==", "vesselId">>,
    <<"left.vesselId", "==", "right.vesselId">> }

InitJoin ==
  /\ kqlQuery \in {<<"BatteryReadings", PIPE, "join">> \o kind
                     \o <<"VesselMaintenance", "on">> \o condition :
                     kind \in JoinKinds, condition \in JoinConditions}
                  \cup {<<"BatteryReadings", PIPE, "join">> \o kind
                          \o <<"VesselMaintenance">> : kind \in JoinKinds}
  /\ cache \in {[EmptyCache EXCEPT !["batteryreadings"] = readings,
                                   !["vesselmaintenance"] = records] :
                  readings \in SeqsUpTo(Readings, MaxJoinRows),
                  records \in SeqsUpTo(Records, MaxJoinRows)}
  /\ Idle

SpecJoin == InitJoin /\ [][Next]_vars

\* the pairs (i, j) of a left and a right row with the same vesselId
MatchingPairs(leftRows, rightRows) ==
  {<<i, j>> \in (1..Len(leftRows)) \X (1..Len(rightRows)) :
     leftRows[i].vesselId = rightRows[j].vesselId}

\* C7: `join <RightTable> on <field>` returns exactly the merged pairs of
\* a left and a right row with equal values of the field; a left row
\* whose value occurs in no right row does not appear.
C7_BareFieldJoin ==
  (pc = "done" /\ StagesOf(kqlQuery) = <<<<"join", "VesselMaintenance", "on", "vesselId">>>>)
    => LET rightRows == getTableData("VesselMaintenance").rows
           pairs == MatchingPairs(data, rightRows)
       IN  /\ Len(result) = Cardinality(pairs)
           /\ RangeOf(result) = {Merge(data[p[1]], rightRows[p[2]]) : p \in pairs}

----------------------------------------------------------------------------
(* Top: one `top N by voltage desc` stage over the battery readings *)

\* readings with a voltage, and one without
TopReadings ==
  {BatteryRow(1, "V1", v) : v \in {11, 12}} \cup {[timestamp |-> 1, vesselId |-> "V1"]}

InitTop ==
  /\ kqlQuery \in {<<"BatteryReadings", PIPE, "top", Digits[n + 1], "by", "voltage", "desc">> :
                     n \in 0..MaxCount}
  /\ cache \in {[EmptyCache EXCEPT !["batteryreadings"] = readings] :
                  readings \in SeqsUpTo(TopReadings, MaxRows)}
  /\ Idle

SpecTop == InitTop /\ [][Next]_vars

TopDone ==
  /\ pc = "done"
  /\ Len(StagesOf(kqlQuery)) = 1
  /\ StagesOf(kqlQuery)[1][1] = "top"

TopCount == ParseInt(StagesOf(kqlQuery)[1][2])

\* a[col] >= b[col] as numbers: false when a side has no value
AtLeast(a, b, col) == Has(a, col) /\ Has(b, col) /\ a[col] >= b[col]

\* rows are min(n, |input|) rows of input, in non-increasing order of col,
\* each at least as large in col as every row of input left out
IsTopDescending(rows, input, n, col) ==
  /\ Len(rows) = Min(n, Len(input))
  /\ \A i, j \in 1..Len(rows) : i < j => AtLeast(rows[i], rows[j], col)
  /\ \E p \in [1..Len(rows) -> 1..Len(input)] :
       /\ \A i, j \in 1..Len(rows) : i # j => p[i] # p[j]
       /\ \A i \in 1..Len(rows) : rows[i] = input[p[i]]
       /\ \A i \in 1..Len(rows) :
            \A k \in (1..Len(input)) \ {p[j] : j \in 1..Len(rows)} :
              AtLeast(rows[i], input[k], col)

\* C8 as stated: for every row sequence and every N >= 0, `top N by field
\* desc` returns min(N, |rows|) rows of the input in non-increasing order
\* of field, none smaller than a row left out.
C8_TopDescendingAnyRows ==
  TopDone => IsTopDescending(result, data, TopCount, "voltage")

\* C8, for row sequences in which every row has a number in field: the
\* same statement.
C8_TopDescending ==
  (TopDone /\ \A i \in 1..Len(data) : Has(data[i], "voltage"))
    => IsTopDescending(result, data, TopCount, "voltage")

C8_Witness ==
  /\ TopDone
  /\ \A i \in 1..Len(data) : Has(data[i], "voltage")
  /\ Len(data) = 3 /\ TopCount = 2
  /\ data[1].voltage < data[3].voltage
  /\ result = <<data[3], data[2]>>

----------------------------------------------------------------------------
(* Summarize: one summarize stage over the battery readings *)

NamedReading(id, name, v) ==
  [timestamp |-> 1, vesselId |-> id, vesselName |-> name, voltage |-> v]

LocatedReading(id, lat, lon) ==
  [timestamp |-> 1, vesselId |-> id, vesselName |-> "Atlantic", voltage |-> 12,
   location |-> [latitude |-> lat, longitude |-> lon]]

SummarizeReadings ==
  { NamedReading("V1", "Atlantic", 11), NamedReading("V1", "Atlantic", 12),
    NamedReading("V1", "Baltic", 11), NamedReading("V2", "Baltic", 12),
    [timestamp |-> 1, vesselId |-> "V2", vesselName |-> "Baltic"],
    LocatedReading("V1", 56, 3), LocatedReading("V2", 58, 20) }

AggregationLists ==
  { <<"count()">>, <<"avg(voltage)", ",", "count()">>, <<"min(voltage)">>,
    <<"median(voltage)">>, <<"dcount(vesselId)">>,
    <<"percentile(voltage", ",", "0)", ",", "percentile(voltage", ",", "100)", ",",
      "min(voltage)", ",", "max(voltage)">> }

GroupLists ==
  { <<>>, <<"by", "vesselId">>, <<"by", "vesselId", ",", "vesselName">>,
    <<"by", "location">> }

InitSummarize ==
  /\ kqlQuery \in {<<"BatteryReadings", PIPE, "summarize">> \o aggs \o by :
                     aggs \in AggregationLists, by \in GroupLists}
  /\ cache \in {[EmptyCache EXCEPT !["batteryreadings"] = readings] :
                  readings \in SeqsUpTo(SummarizeReadings, MaxRows)}
  /\ Idle

SpecSummarize == InitSummarize /\ [][Next]_vars

SummarizeDone ==
  /\ pc = "done"
  /\ Len(StagesOf(kqlQuery)) = 1
  /\ StagesOf(kqlQuery)[1][1] = "summarize"

SummarizeText == StagesOf(kqlQuery)[1]
HasByClause == \E i \in 1..Len(SummarizeText) : SummarizeText[i] = "by"

\* the group-by fields and the aggregation specs written in the stage
ByFields ==
  LET i == CHOOSE k \in 1..Len(SummarizeText) : SummarizeText[k] = "by"
  IN  SelectSeq(SubSeq(SummarizeText, i + 1, Len(SummarizeText)), LAMBDA tok : tok # ",")
Requested(spec) == \E i \in 1..Len(SummarizeText) : SummarizeText[i] = spec

\* C9: a summarize stage with no `by` clause returns exactly one row for
\* every input row sequence, the empty one included, whatever the
\* aggregation specs are.
C9_OneRowWithoutBy ==
  (SummarizeDone /\ ~HasByClause) => Len(result) = 1

C9_Witness ==
  /\ SummarizeDone /\ ~HasByClause
  /\ data = <<>>
  /\ Requested("median(voltage)")
  /\ Len(result) = 1

\* the values a row has in the group-by fields
TupleOf(row, fields) ==
  [k \in 1..Len(fields) |-> IF Has(row, fields[k]) THEN <<row[fields[k]]>> ELSE <<>>]

\* the input rows having a tuple
RowsOf(tuple, fields) == SelectSeq(data, LAMBDA row : TupleOf(row, fields) = tuple)

RECURSIVE SumOf(_, _)
SumOf(rows, col) ==
  IF rows = <<>> THEN 0 ELSE rows[1][col] + SumOf(Tail(rows), col)

\* C10: a summarize stage grouped by plain fields returns one row per
\* distinct tuple of group-by values of the input; in it count() is the
\* number of input rows having the tuple and avg(f) the arithmetic mean of
\* f over them, so the counts add up to the number of input rows.
C10_GroupedSummarize ==
  (SummarizeDone /\ HasByClause)
    => LET fields == ByFields
           tuples == {TupleOf(data[i], fields) : i \in 1..Len(data)}
       IN  /\ Len(result) = Cardinality(tuples)
           /\ \E rowOf \in [tuples -> 1..Len(result)] :
                /\ \A s, t \in tuples : s # t => rowOf[s] # rowOf[t]
                /\ \A tuple \in tuples :
                     LET group == RowsOf(tuple, fields)
                         out == result[rowOf[tuple]]
                     IN  /\ \A k \in 1..Len(fields) : fields[k] \in DOMAIN out
                         /\ Requested("count()") => out["count()"] = Len(group)
                         /\ (Requested("avg(voltage)")
                               /\ \A i \in 1..Len(group) : Has(group[i], "voltage"))
                              => /\ out["avg(voltage)"].den > 0
                                 /\ out["avg(voltage)"].num * Len(group)
                                      = SumOf(group, "voltage") * out["avg(voltage)"].den
           /\ Requested("count()")
                => Sum([i \in 1..Len(result) |-> result[i]["count()"]]) = Len(data)

\* C10, for group-by fields holding strings: the same statement over the
\* stages whose group-by fields are vesselId and vesselName.
C10_GroupedByStrings ==
  (SummarizeDone /\ HasByClause
     /\ \A k \in 1..Len(SummarizeText) : SummarizeText[k] # "location")
    => /\ C10_GroupedSummarize
       /\ \A i \in 1..Len(data) : \E j \in 1..Len(result) :
            \A k \in 1..Len(ByFields) : result[j][ByFields[k]] = data[i][ByFields[k]]

C10_Witness ==
  /\ SummarizeDone /\ HasByClause
  /\ Len(ByFields) = 2
  /\ Requested("avg(voltage)")
  /\ Len(data) = 3 /\ Len(result) = 2
  /\ \E i \in 1..2 : /\ result[i]["count()"] = 2
                     /\ result[i]["avg(voltage)"] = Quotient(23, 2)

\* the values rows have in a column
ValuesOf(rows, col) == {rows[i][col] : i \in {k \in 1..Len(rows) : Has(rows[k], col)}}

\* C11: dcount(f) is the number of distinct values of f in the group, so it
\* is smaller than the group's row count when two rows share a value.
C11_DistinctCount ==
  (SummarizeDone /\ ~HasByClause /\ Requested("dcount(vesselId)"))
    => /\ "dcount(vesselId)" \in DOMAIN result[1]
       /\ result[1]["dcount(vesselId)"] = Cardinality(ValuesOf(data, "vesselId"))

\* the columns of an output row that are neither group-by columns nor the
\* min and max columns
OtherColumns(row) ==
  (DOMAIN row) \ ({"min(voltage)", "max(voltage)"}
                    \cup (IF HasByClause THEN RangeOf(ByFields) ELSE {}))

\* C12: in a summarize stage asking for percentile(f, 0), percentile(f, 100),
\* min(f) and max(f), each output row carries the min(f) result as its
\* percentile(f, 0) and the max(f) result as its percentile(f, 100).
C12_PercentileEnds ==
  (SummarizeDone /\ Requested("percentile(voltage"))
    => \A j \in 1..Len(result) :
         "min(voltage)" \in DOMAIN result[j]
           => /\ \E col \in OtherColumns(result[j]) :
                   result[j][col] = result[j]["min(voltage)"]
              /\ \E col \in OtherColumns(result[j]) :
                   result[j][col] = result[j]["max(voltage)"]

----------------------------------------------------------------------------
(* Distinct: one or two distinct stages over the battery readings *)

ColumnLists ==
  { <<"vesselId">>, <<"vesselId", ",", "vesselName">>, <<"voltage">>, <<"location">> }

InitDistinct ==
  /\ kqlQuery \in
       {<<"BatteryReadings", PIPE, "distinct">> \o columns : columns \in ColumnLists}
       \cup {<<"BatteryReadings", PIPE, "distinct">> \o columns
               \o <<PIPE, "distinct">> \o columns : columns \in ColumnLists}
  /\ cache \in {[EmptyCache EXCEPT !["batteryreadings"] = readings] :
                  readings \in SeqsUpTo(SummarizeReadings, MaxRows)}
  /\ Idle

SpecDistinct == InitDistinct /\ [][Next]_vars

DistinctDone ==
  /\ pc = "done"
  /\ \A k \in 1..Len(StagesOf(kqlQuery)) : StagesOf(kqlQuery)[k][1] = "distinct"

\* the columns written in the first stage, and a row's values in them as
\* the key joins them
DistinctColumns ==
  SelectSeq(Tail(StagesOf(kqlQuery)[1]), LAMBDA tok : tok # ",")
KeyValues(row) == [k \in 1..Len(DistinctColumns) |-> StringOf(row, DistinctColumns[k])]

RECURSIVE RowsAt(_, _, _)
\* the rows of seq at the positions of S from position i on, in order
RowsAt(seq, S, i) ==
  IF i > Len(seq) THEN <<>>
  ELSE (IF i \in S THEN <<seq[i]>> ELSE <<>>) \o RowsAt(seq, S, i + 1)

\* C13: distinct applied twice gives what distinct applied once gives; the
\* output has no more rows than the input and is the input's rows that are
\* the first of their column-value key, in the input's order.
C13_DistinctIdempotent ==
  DistinctDone
    => LET input == getTableData(MainTable(kqlQuery)).rows
           once == IF Len(StagesOf(kqlQuery)) = 1 THEN result ELSE data
           first == {i \in 1..Len(input) :
                       \A j \in 1..(i-1) : KeyValues(input[j]) # KeyValues(input[i])}
       IN  /\ result = once
           /\ Len(once) <= Len(input)
           /\ once = RowsAt(input, first, 1)

C13_Witness ==
  /\ DistinctDone
  /\ Len(StagesOf(kqlQuery)) = 2
  /\ Len(cache["batteryreadings"]) = 3
  /\ Len(result) = 2
  /\ cache["batteryreadings"][1] # cache["batteryreadings"][3]
  /\ KeyValues(cache["batteryreadings"][1]) = KeyValues(cache["batteryreadings"][3])
  /\ result[1] = cache["batteryreadings"][1]

----------------------------------------------------------------------------
(* Claims on single operations of a statement *)

\* the operation the loop applied last, with data as its input and result
\* as its output
Applied(type) ==
  /\ pc \in {"running", "done"}
  /\ opIndex >= 1
  /\ parsedQuery.operations[opIndex].type = type

\* C14: a union stage with a registered right table B applied to rows A
\* returns the rows of A in order followed by the rows of B in order:
\* |A| + |B| rows, none removed, merged or altered.
C14_UnionConcatenates ==
  Applied("union")
    => LET table == toLowerCase(parsedQuery.operations[opIndex].table)
           right == cache[table]
       IN  /\ table \in TableNames
           /\ Len(result) = Len(data) + Len(right)
           /\ SubSeq(result, 1, Len(data)) = data
           /\ RegistryOrder(SubSeq(result, Len(data) + 1, Len(result)), right,
                            TimeColumn(table))

C14_Witness ==
  /\ Applied("union")
  /\ MainTable(kqlQuery) = "VesselMaintenance"
  /\ Len(data) = 2 /\ Len(result) = 4
  /\ result[1] = result[3]

\* a finished query of one join stage whose condition is an equality
EqualityJoinDone ==
  /\ pc = "done"
  /\ Len(StagesOf(kqlQuery)) = 1
  /\ StagesOf(kqlQuery)[1][1] = "join"
  /\ \E k \in 1..Len(StagesOf(kqlQuery)[1]) : StagesOf(kqlQuery)[1][k] = "=="

\* the kind written in the join stage, inner when none is written
WrittenKind ==
  LET word == StagesOf(kqlQuery)[1][2]
  IN  CASE word = "kind=left" -> "left"
        [] word = "kind=leftouter" -> "leftouter"
        [] OTHER -> "inner"

\* out comes from the left row: it has the left row's values in the
\* columns only the left table has
FromLeft(out, leftRow) ==
  \A col \in {"timestamp", "voltage"} : col \in DOMAIN out /\ out[col] = leftRow[col]

\* C15: with an equality condition, an inner join returns between 0 and
\* |left| x |right| rows, and a left or leftouter join returns at least
\* |left| rows, every left row standing behind a row of its own.
C15_JoinCardinality ==
  EqualityJoinDone
    => LET right == getTableData("VesselMaintenance").rows
       IN  IF WrittenKind = "inner"
           THEN Len(result) \in 0..(Len(data) * Len(right))
           ELSE /\ Len(result) >= Len(data)
                /\ \E p \in [1..Len(data) -> 1..Len(result)] :
                     /\ \A i, j \in 1..Len(data) : i # j => p[i] # p[j]
                     /\ \A i \in 1..Len(data) : FromLeft(result[p[i]], data[i])

C15_Witness ==
  /\ EqualityJoinDone
  /\ WrittenKind = "leftouter"
  /\ Len(data) = 2 /\ data[1].vesselId = "V2" /\ data[2].vesselId = "V1"
  /\ Len(result) = 3
  /\ FromLeft(result[1], data[1])

----------------------------------------------------------------------------
(* Unrecognized operation keywords *)

\* the first words parseKQLOperation has a case for
Keywords ==
  {"where", "summarize", "project", "extend", "distinct", "top", "sort", "order",
   "bin", "join", "union"}

IsUnknownStage(segment) ==
  segment # <<>> /\ segment[1] \notin (Keywords \cup {NL})

RECURSIVE WithoutUnknown(_)
\* the "|" segments of a text again as text, the segments of an unknown
\* keyword left out; the line break that ends such a segment stays
WithoutUnknown(segments) ==
  IF segments = <<>> THEN <<>>
  ELSE LET segment == Head(segments)
       IN  (IF IsUnknownStage(segment)
            THEN (IF Last(segment) = NL THEN <<NL>> ELSE <<>>)
            ELSE <<PIPE>> \o segment)
           \o WithoutUnknown(Tail(segments))

\* the text with its stages of unknown keyword removed
RemoveUnknownStages(text) ==
  LET segments == SplitOn(text, PIPE)
  IN  Head(segments) \o WithoutUnknown(Tail(segments))

\* how executeKQLQuery ends on a text
Execute(text) ==
  LET parsed == parseKQLStatement(text)
  IN  IF parsed.threw THEN [pc |-> "failed", rows |-> <<>>, error |-> TypeError]
      ELSE LET table == getTableData(parsed.table)
           IN  IF table.threw
               THEN [pc |-> "failed", rows |-> <<>>, error |-> UnknownTable(table.message)]
               ELSE LET applied == ApplyInOrder(table.rows, parsed.operations)
                    IN  IF applied.threw
                        THEN [pc |-> "failed", rows |-> <<>>,
                              error |-> UnknownTable(applied.message)]
                        ELSE [pc |-> "done", rows |-> applied.rows, error |-> NoError]

HasUnknownStage ==
  \E k \in 1..Len(StagesOf(kqlQuery)) : IsUnknownStage(StagesOf(kqlQuery)[k])

\* every "|" of the text stands on the first line, or every one after a
\* line break
PureLayout ==
  \/ \A i \in 1..Len(kqlQuery) : kqlQuery[i] # NL
  \/ \A i \in 1..Len(kqlQuery) : kqlQuery[i] = PIPE => kqlQuery[i-1] = NL

\* C16: a stage whose first word is no operation keyword is dropped
\* without error: the query ends as the same query without that stage
\* ends, the other stages being applied in order.
C16_UnknownStageDropped ==
  (Finished /\ HasUnknownStage)
    => LET expected == Execute(RemoveUnknownStages(kqlQuery))
       IN  /\ pc = expected.pc
           /\ error = expected.error
           /\ pc = "done" => result = expected.rows

\* C16 for the texts whose stages are all on the first line or each on a
\* line of its own: the same statement.
C16_DroppedInPureLayouts ==
  PureLayout => C16_UnknownStageDropped

----------------------------------------------------------------------------
(* Filters that match no predicate pattern *)

\* no chunk of the condition text matches a leaf predicate pattern
MatchesNoPattern(condition) ==
  \A k \in 1..Len(condition) : LeafPattern(condition[k]).pat = "none"

\* C17: a where stage whose condition text matches none of the leaf
\* predicate patterns keeps every input row: its output is its input.
C17_FailOpen ==
  (WhereDone /\ MatchesNoPattern(ConditionText)) => result = data

\* C17 for the condition texts without `not`: the same statement.
C17_FailOpenUnnegated ==
  (\A k \in 1..Len(ConditionText) : ConditionText[k] # "not") => C17_FailOpen

----------------------------------------------------------------------------
(* Row order: one stage that is no sort, top or summarize, over the battery
   readings *)

OrderStages ==
  { <<"where", "voltage > 11">>,
    <<"distinct", "vesselId">>,
    <<"project", "vesselId", ",", "voltage">>,
    <<"extend", "total", "=", "voltage", "+", "voltage">>,
    <<"extend", "label", "=", "vesselName">>,
    <<"bin", "bin(voltage", ",", "2)">>,
    <<"bin(voltage", ",", "2)">> }

InitOrder ==
  /\ kqlQuery \in {<<"BatteryReadings", PIPE>> \o stage : stage \in OrderStages}
  /\ cache \in {[EmptyCache EXCEPT !["batteryreadings"] = readings] :
                  readings \in SeqsUpTo(SummarizeReadings, MaxRows)}
  /\ Idle

SpecOrder == InitOrder /\ [][Next]_vars

\* sub is seq with some rows left out, the others in their order
IsSubsequence(sub, seq) ==
  \E p \in [1..Len(sub) -> 1..Len(seq)] :
    /\ \A i, j \in 1..Len(sub) : i < j => p[i] < p[j]
    /\ \A i \in 1..Len(sub) : sub[i] = seq[p[i]]

\* the columns a stage of OrderStages adds
AddedColumns == {"total", "label", "bin_voltage"}

\* out and in agree in the columns both have, the added ones aside
AgreeOnShared(out, in) ==
  \A col \in (ValueCols(out) \cap ValueCols(in)) \ AddedColumns : out[col] = in[col]

\* C18: where and distinct return a subsequence of their input in the same
\* relative order; project, extend and a standalone bin return one row per
\* input row, at the input row's position.
C18_OrderPreserved ==
  /\ (Applied("where") \/ Applied("distinct")) => IsSubsequence(result, data)
  /\ Applied("project")
       => /\ Len(result) = Len(data)
          /\ \A i \in 1..Len(data) :
               /\ ValueCols(result[i]) = ValueCols(data[i]) \cap {"vesselId", "voltage"}
               /\ AgreeOnShared(result[i], data[i])
  /\ (Applied("extend") \/ Applied("bin"))
       => /\ Len(result) = Len(data)
          /\ \A i \in 1..Len(data) :
               /\ ValueCols(data[i]) \subseteq ValueCols(result[i])
               /\ ValueCols(result[i]) \cap AddedColumns # {}
               /\ AgreeOnShared(result[i], data[i])

C18_Witness ==
  /\ Applied("extend") /\ pc = "done"
  /\ Len(data) = 3
  /\ data[1].vesselId # data[3].vesselId
  /\ "total" \in DOMAIN result[1] /\ result[1].total = 22
  /\ result[3].total = 0

----------------------------------------------------------------------------
(* Several calls of executeKQLQuery in flight *)

\* The call whose continuation runs next, as it is suspended
Call ==
  [kqlQuery |-> kqlQuery, pc |-> pc, parsedQuery |-> parsedQuery,
   opIndex |-> opIndex, data |-> data, result |-> result, error |-> error,
   shared |-> shared]

IdleCall(text) ==
  [kqlQuery |-> text, pc |-> "start", parsedQuery |-> NoQuery, opIndex |-> 0,
   data |-> <<>>, result |-> <<>>, error |-> NoError, shared |-> ""]

\* The running call reaches an await (or its end) and the event loop runs
\* the continuation of another call in flight.  The steps between two
\* awaits are the actions ExecuteKQLQuery and ApplyKQLOperation; the await
\* inside a join or a union follows the read of the right table and is
\* followed by steps on the call's own arrays only.
Resume ==
  \E i \in 1..Len(inFlight) :
    /\ inFlight[i].pc \in {"start", "running"}
    /\ kqlQuery' = inFlight[i].kqlQuery
    /\ pc' = inFlight[i].pc
    /\ parsedQuery' = inFlight[i].parsedQuery
    /\ opIndex' = inFlight[i].opIndex
    /\ data' = inFlight[i].data
    /\ result' = inFlight[i].result
    /\ error' = inFlight[i].error
    /\ shared' = inFlight[i].shared
    /\ inFlight' = [inFlight EXCEPT ![i] = Call]
    /\ UNCHANGED cache

NextConcurrent == ExecuteKQLQuery \/ ApplyKQLOperation \/ Return \/ Resume

VesselRow(id, name) == [vesselId |-> id, vesselName |-> name]

\* vessels stored in an order no sort of the queries below produces, and
\* maintenance records stored out of time order
Harbour(vessels) ==
  [EmptyCache EXCEPT
     !["vesselinfo"] = vessels,
     !["vesselmaintenance"] = <<MaintenanceRow(2, "V1", 5), MaintenanceRow(1, "V3", 7)>>]

Harbours ==
  {Harbour(<<VesselRow("V1", "Coral"), VesselRow("V3", "Atlantic"), VesselRow("V2", "Baltic")>>),
   Harbour(<<VesselRow("V2", "Baltic"), VesselRow("V1", "Coral")>>)}

ConcurrentTexts ==
  {<<"VesselInfo">>,
   <<"VesselInfo", PIPE, "top", "1", "by", "vesselId", "desc">>,
   <<"vesselinfo", NL, PIPE, "join", "VesselMaintenance", "on", "vesselId",
     NL, PIPE, "top", "2", "by", "vesselId", "asc">>,
   <<"VesselMaintenance", PIPE, "top", "1", "by", "cost", "desc">>,
   <<"VesselMaintenance", PIPE, "union", "VesselInfo">>,
   <<"VesselInfo", PIPE, "extend", "vesselName", PIPE, "top", "1", "by", "vesselName", "asc">>,
   <<"VesselInfo", PIPE, "join", "Foo", "on", "vesselId">>}

\* the calls in flight besides the first
MaxInFlight == 1

InitConcurrent ==
  /\ kqlQuery \in ConcurrentTexts
  /\ cache \in Harbours
  /\ pc = "start"
  /\ parsedQuery = NoQuery
  /\ opIndex = 0
  /\ data = <<>>
  /\ result = <<>>
  /\ error = NoError
  /\ shared = ""
  /\ inFlight \in [1..MaxInFlight -> {IdleCall(text) : text \in ConcurrentTexts}]

SpecConcurrent == InitConcurrent /\ [][NextConcurrent]_vars

\* a call has ended as it ends when it runs alone on the registry
EndsAsAlone(call) ==
  call.pc \in {"done", "failed"}
    => LET alone == Execute(call.kqlQuery)
       IN  /\ call.pc = alone.pc
           /\ call.error = alone.error
           /\ call.pc = "done" => call.result = alone.rows

\* C19: whatever the interleaving of the calls in flight at their awaits,
\* no step of a call (Top's in-place sort included) changes the rows the
\* registry stores or their order, and every call ends with the result
\* (or the error) it ends with when it runs alone on the same registry.
C19_InterleavingHarmless ==
  /\ [][cache' = cache]_vars
  /\ [](/\ EndsAsAlone(Call)
        /\ \A i \in 1..Len(inFlight) : EndsAsAlone(inFlight[i]))

\* Two calls on the vessels are in flight: one has fetched the vessels and
\* passed its join, and is suspended before its top; meanwhile the other
\* has run its `top 1 by vesselId desc` to the end.
C19_Witness ==
  /\ pc = "done"
  /\ kqlQuery = <<"VesselInfo", PIPE, "top", "1", "by", "vesselId", "desc">>
  /\ Len(cache["vesselinfo"]) = 3
  /\ result = <<VesselRow("V3", "Atlantic")>>
  /\ inFlight[1].pc = "running"
  /\ inFlight[1].opIndex = 1
  /\ Len(inFlight[1].parsedQuery.operations) = 2
  /\ inFlight[1].result = cache["vesselinfo"]

----------------------------------------------------------------------------
(* Where with a time window: `where timestamp between(ago(A) .. ago(B))` *)

\* readings before, at the ends of, inside and after the window from two
\* minutes ago to one minute ago, and one without a timestamp
WindowReadings ==
  {BatteryRow(Now - age, "V1", 12) : age \in {130, 120, 90, 60, 30}}
  \cup {[vesselId |-> "V1", voltage |-> 12]}

TimePredicates ==
  {"timestamp >= ago(1m)",
   "timestamp between(ago(2m) .. ago(1m))",
   "timestamp between(ago(2m) .. ago(30s))",
   "timestamp between(ago(60s) .. ago(1m))",
   "timestamp between(ago(1m) .. ago(2m))"}

InitBetween ==
  /\ kqlQuery \in {<<"BatteryReadings", PIPE, "where", predicate>> :
                     predicate \in TimePredicates}
  /\ cache \in {[EmptyCache EXCEPT !["batteryreadings"] = readings] :
                  readings \in SeqsUpTo(WindowReadings, MaxRows)}
  /\ Idle

SpecBetween == InitBetween /\ [][Next]_vars

\* the between predicate of the query, when the query has one
Window == LeafPattern(kqlQuery[Len(kqlQuery)])

\* C20: a finished `where timestamp between(ago(A u1) .. ago(B u2))` with
\* the larger offset first (Now - A*u1 <= Now - B*u2) has kept exactly the
\* rows whose timestamp t satisfies Now - A*u1 <= t <= Now - B*u2.
C20_BetweenKeepsWindow ==
  (/\ pc = "done"
   /\ Window.pat = "between"
   /\ Window.startValue * Multiplier(Window.startUnit)
        >= Window.endValue * Multiplier(Window.endUnit))
    => result = SelectSeq(data, LAMBDA row :
                  /\ Has(row, "timestamp")
                  /\ Now - Window.startValue * Multiplier(Window.startUnit) <= row.timestamp
                  /\ row.timestamp <= Now - Window.endValue * Multiplier(Window.endUnit))

----------------------------------------------------------------------------
(* Where with a numeric comparison: `where voltage <op> 12` *)

\* readings with a voltage below, at and above 12, one without a voltage
\* and one whose voltage is null
VoltageReadings ==
  {BatteryRow(1, "V1", v) : v \in {11, 12, 13}}
  \cup {[timestamp |-> 1, vesselId |-> "V1"],
        [timestamp |-> 1, vesselId |-> "V1"] @@ [c \in {"$null"} |-> {"voltage"}]}

NumericPredicates ==
  {"voltage > 12", "voltage < 12", "voltage >= 12", "voltage <= 12",
   "voltage == 12", "voltage != 12"}

InitNumeric ==
  /\ kqlQuery \in {<<"BatteryReadings", PIPE, "where", predicate>> :
                     predicate \in NumericPredicates}
  /\ cache \in {[EmptyCache EXCEPT !["batteryreadings"] = readings] :
                  readings \in SeqsUpTo(VoltageReadings, MaxRows)}
  /\ Idle

SpecNumeric == InitNumeric /\ [][Next]_vars

NumericDone ==
  /\ pc = "done"
  /\ opIndex = 1
  /\ LeafPattern(kqlQuery[Len(kqlQuery)]).pat = "numeric"

\* C21: a finished `where field <op> number` has kept every row whose
\* field is missing or is no number, whichever of the six operators.
C21_NumericFailOpen ==
  NumericDone
    => \A i \in 1..Len(data) :
         ~IsNumeric(data[i], LeafPattern(kqlQuery[Len(kqlQuery)]).field)
           => \E j \in 1..Len(result) : result[j] = data[i]

----------------------------------------------------------------------------
(* Where with a parenthesized clause: `(A or B) and C`, `A and (B or C)` *)

ClauseLeaves == {"voltage > 12", "voltage < 12", "voltage >= 12", "voltage != 12"}

LeafTriples ==
  {t \in [1..3 -> ClauseLeaves] : t[1] # t[2] /\ t[2] # t[3] /\ t[1] # t[3]}

OrFirst(t) == <<"(", t[1], "or", t[2], ")", "and", t[3]>>
AndFirst(t) == <<t[1], "and", "(", t[2], "or", t[3], ")">>

InitClause ==
  /\ kqlQuery \in {<<"BatteryReadings", PIPE, "where">> \o condition :
                     condition \in {OrFirst(t) : t \in LeafTriples}
                                   \cup {AndFirst(t) : t \in LeafTriples}}
  /\ cache \in {[EmptyCache EXCEPT !["batteryreadings"] = readings] :
                  readings \in SeqsUpTo({BatteryRow(1, "V1", v) : v \in {11, 12, 13}},
                                        MaxRows)}
  /\ Idle

SpecClause == InitClause /\ [][Next]_vars

\* what a leaf predicate says of a row
Holds(row, leaf) == evaluateCondition(row, <<leaf>>)

\* what the condition of the query says of a row, the clause in
\* parentheses taken as a unit
ClauseHolds(row) ==
  LET c == SubSeq(kqlQuery, 4, Len(kqlQuery))
  IN  IF c[1] = "("
      THEN (Holds(row, c[2]) \/ Holds(row, c[4])) /\ Holds(row, c[7])
      ELSE Holds(row, c[1]) /\ (Holds(row, c[4]) \/ Holds(row, c[6]))

\* C22: a finished where stage with the condition `(A or B) and C` has
\* kept exactly the rows for which (A or B) and C holds, and with
\* `A and (B or C)` exactly those for which A and (B or C) holds.
C22_ParenthesizedUnit ==
  (pc = "done" /\ opIndex = 1) => result = SelectSeq(data, ClauseHolds)

----------------------------------------------------------------------------
(* Summarize by a bin expression: `summarize count() by bin(voltage, 2)` *)

BinnedReadings == {BatteryRow(1, "V1", v) : v \in {10, 11, 12, 13}}

InitBinned ==
  /\ kqlQuery \in {<<"BatteryReadings", PIPE, "summarize">> \o aggs
                      \o <<"by", "bin(voltage", ",", "2)">> :
                     aggs \in {<<"count()">>, <<"min(voltage)">>,
                               <<"count()", ",", "max(voltage)">>}}
  /\ cache \in {[EmptyCache EXCEPT !["batteryreadings"] = readings] :
                  readings \in SeqsUpTo(BinnedReadings, MaxRows)}
  /\ Idle

SpecBinned == InitBinned /\ [][Next]_vars

\* the bucket the bin function gives a row for the bin expression of the
\* by clause
BucketOf(row) == applyBinFunction(row, <<"bin(voltage", ",", "2)">>)

\* the voltages of the rows of a bucket
BucketVoltages(bucket) ==
  {data[i].voltage : i \in {k \in 1..Len(data) : BucketOf(data[k]) = bucket}}

\* C23: a finished `summarize ... by bin(voltage, 2)` has one output row
\* per distinct bucket of the input rows, and the rows aggregated into an
\* output row are those of one bucket: its min or max is the least or
\* greatest voltage of that bucket.
C23_GroupsAreBuckets ==
  (SummarizeDone /\ HasByClause)
    => LET buckets == {BucketOf(data[i]) : i \in 1..Len(data)}
       IN  /\ Len(result) = Cardinality(buckets)
           /\ \A j \in 1..Len(result) :
                /\ "min(voltage)" \in DOMAIN result[j]
                     => \E b \in buckets :
                          /\ result[j]["min(voltage)"] \in BucketVoltages(b)
                          /\ \A v \in BucketVoltages(b) : result[j]["min(voltage)"] <= v
                /\ "max(voltage)" \in DOMAIN result[j]
                     => \E b \in buckets :
                          /\ result[j]["max(voltage)"] \in BucketVoltages(b)
                          /\ \A v \in BucketVoltages(b) : result[j]["max(voltage)"] >= v

----------------------------------------------------------------------------
(* Where with a day boundary: `where timestamp <op> startofday(expr)` *)

\* readings of the day before yesterday, of yesterday (its first and its
\* last second included), of today and of tomorrow
DayReadings ==
  {BatteryRow(StartOfDay(Now) + offset, "V1", 12) :
     offset \in {-Multiplier("d") - 1, -Multiplier("d"), -1, 0, 100,
                 Multiplier("d") - 1, Multiplier("d")}}

DayPredicates ==
  {"timestamp >= startofday(ago(1d))", "timestamp < startofday(ago(1d))",
   "timestamp >= startofday(now())", "timestamp < startofday(now())",
   "timestamp <= endofday(ago(1d))", "timestamp <= endofday(now())"}

InitDay ==
  /\ kqlQuery \in {<<"BatteryReadings", PIPE, "where", predicate>> :
                     predicate \in DayPredicates}
  /\ cache \in {[EmptyCache EXCEPT !["batteryreadings"] = readings] :
                  readings \in SeqsUpTo(DayReadings, MaxRows)}
  /\ Idle

SpecDay == InitDay /\ [][Next]_vars

\* the predicate written in the query
DayPredicate == kqlQuery[Len(kqlQuery)]

\* the time expr of the predicate stands for
DayOf(predicate) ==
  IF predicate \in {"timestamp >= startofday(ago(1d))", "timestamp < startofday(ago(1d))",
                    "timestamp <= endofday(ago(1d))"}
  THEN Now - Multiplier("d")
  ELSE Now

\* the row's timestamp compared with the boundary of the day of expr
WithinBoundary(row) ==
  LET m == LeafPattern(DayPredicate)
      boundary == IF m.pat = "startofday" THEN StartOfDay(DayOf(DayPredicate))
                  ELSE StartOfDay(DayOf(DayPredicate)) + Multiplier("d") - 1
  IN  CASE m.operator = ">=" -> row.timestamp >= boundary
        [] m.operator = "<"  -> row.timestamp < boundary
        [] m.operator = "<=" -> row.timestamp <= boundary

\* C24: a finished `where timestamp <op> startofday(expr)` (or endofday)
\* has kept exactly the rows whose timestamp stands in <op> to the first
\* (last) instant of the day that contains expr, expr being now() or
\* ago(1d).
C24_DayBoundary ==
  (pc = "done" /\ opIndex = 1) => result = SelectSeq(data, WithinBoundary)

----------------------------------------------------------------------------
(* Joins without a usable condition *)

JoinStage == StagesOf(kqlQuery)[1]

\* the one stage of the query is a join, and the call is over
JoinOver ==
  /\ Finished
  /\ Len(StagesOf(kqlQuery)) = 1
  /\ JoinStage[1] = "join"

HasOnClause == \E k \in 1..Len(JoinStage) : JoinStage[k] = "on"
HasEquality == \E k \in 1..Len(JoinStage) : JoinStage[k] = "=="

\* rows is the cross product of the left and the right rows, left-major
IsCrossProduct(rows, left, right) ==
  /\ Len(rows) = Len(left) * Len(right)
  /\ \A i \in 1..Len(left), j \in 1..Len(right) :
       rows[(i - 1) * Len(right) + j] = Merge(left[i], right[j])

\* C25: a finished join whose condition has neither the shape
\* `left.f == right.f` nor `f == f`, or that has no condition, has returned
\* the cross product of the left rows and the right table's rows.
C25_DegradesToCrossProduct ==
  (JoinOver /\ pc = "done" /\ ~HasEquality)
    => IsCrossProduct(result, data, getTableData("VesselMaintenance").rows)

\* The half of C25 that holds: without an `on` clause the join is the
\* cross product.
C25_NoConditionCrossProduct ==
  (JoinOver /\ pc = "done" /\ ~HasOnClause)
    => IsCrossProduct(result, data, getTableData("VesselMaintenance").rows)

\* C30: a join written `join kind=<kind> <table>`, without `on`, over a
\* registered <table> does not fail: it ends with the rows of the join
\* with <table>.
C30_KindWithoutOn ==
  (JoinOver /\ ~HasOnClause /\ IsKindTok(JoinStage[2]))
    => /\ pc = "done"
       /\ parsedQuery.operations[1].table = "VesselMaintenance"
       /\ parsedQuery.operations[1].kind = KindOf(JoinStage[2])
       /\ parsedQuery.operations[1].condition = <<>>

\* out is the left row with nulls in the columns that only the right
\* table has
LeftRowWithNulls(out, leftRow) ==
  /\ \A col \in ValueCols(leftRow) : Has(out, col) /\ out[col] = leftRow[col]
  /\ NullCols(out) \cap ValueCols(leftRow) = {}

\* C26: after a left or leftouter join with an equality condition, every
\* left row without a matching right row stands in the output with all of
\* its own values, the join key and the columns the right table also has
\* included.
C26_UnmatchedLeftRowKept ==
  (EqualityJoinDone /\ WrittenKind \in {"left", "leftouter"})
    => LET right == getTableData("VesselMaintenance").rows
       IN  \A i \in 1..Len(data) :
             (\A j \in 1..Len(right) : right[j].vesselId # data[i].vesselId)
               => \E k \in 1..Len(result) : LeftRowWithNulls(result[k], data[i])

----------------------------------------------------------------------------
(* The fields of the row of a summarize without `by` *)

\* C27: the one row of a finished summarize without `by` has a field for
\* every min(f) and max(f) spec of the stage, keyed by the spec's text, and
\* the field is null when no input row has a numeric f.
C27_NullMinMaxPresent ==
  (SummarizeDone /\ ~HasByClause)
    => \A spec \in {"min(voltage)", "max(voltage)"} :
         Requested(spec)
           => /\ Len(result) = 1
              /\ spec \in ValueCols(result[1]) \cup NullCols(result[1])
              /\ (\A i \in 1..Len(data) : ~IsNumeric(data[i], "voltage"))
                   => spec \in NullCols(result[1])

----------------------------------------------------------------------------
(* Extend with a plain field: `extend level = voltage` *)

\* readings with the voltage 0, with another voltage and without one
LevelReadings ==
  {BatteryRow(1, "V1", v) : v \in {0, 12}} \cup {[timestamp |-> 1, vesselId |-> "V1"]}

InitExtend ==
  \/ /\ kqlQuery = <<"BatteryReadings", PIPE, "extend", "level", "=", "voltage">>
     /\ cache \in {[EmptyCache EXCEPT !["batteryreadings"] = readings] :
                     readings \in SeqsUpTo(LevelReadings, MaxRows)}
     /\ Idle
  \/ /\ kqlQuery = <<"AlertsAndEvents", PIPE, "extend", "flag", "=", "resolved">>
     /\ cache \in {[EmptyCache EXCEPT !["alertsandevents"] = events] :
                     events \in SeqsUpTo(Events, MaxEvents)}
     /\ Idle

SpecExtend == InitExtend /\ [][Next]_vars

\* the new column and the field of the extend stage of the query
ExtendName == kqlQuery[4]
ExtendField == kqlQuery[6]

\* C28: after `extend name = f`, every output row has in name the value
\* the row has of f when it has the field (0 and false included), and the
\* text f when it has not.
C28_ExtendCopiesField ==
  (pc = "done" /\ opIndex = 1)
    => /\ Len(result) = Len(data)
       /\ \A i \in 1..Len(data) :
            /\ Has(result[i], ExtendName)
            \* numbers, booleans and texts are compared as they are written
            /\ ToString(result[i][ExtendName])
                 = IF Has(data[i], ExtendField)
                   THEN ToString(data[i][ExtendField]) ELSE ToString(ExtendField)

----------------------------------------------------------------------------
(* A stage that is a bin expression: `| bin(voltage, 2)` *)

\* C29: a finished query whose one stage is the text `bin(voltage, 2)` has
\* parsed the stage to a bin operation and returns every row of the table
\* with the added column bin_voltage holding the row's bucket.
C29_StandaloneBin ==
  (pc = "done" /\ StagesOf(kqlQuery) = <<<<"bin(voltage", ",", "2)">>>>)
    => LET input == getTableData(MainTable(kqlQuery)).rows
       IN  /\ Len(parsedQuery.operations) = 1
           /\ parsedQuery.operations[1].type = "bin"
           /\ Len(result) = Len(input)
           /\ \A i \in 1..Len(input) :
                result[i] = Merge(input[i], [c \in {"bin_voltage"} |-> BucketOf(input[i])])

\* The stage written with the keyword, `| bin bin(voltage, 2)`, does add
\* the column.
C29_BinKeyword ==
  (pc = "done" /\ StagesOf(kqlQuery) = <<<<"bin", "bin(voltage", ",", "2)">>>>)
    => /\ Len(result) = Len(data)
       /\ \A i \in 1..Len(data) :
            result[i] = Merge(data[i], [c \in {"bin_voltage"} |-> BucketOf(data[i])])

====
